---- MODULE Spec2Model ----
(***************************************************************************)
(* The shipment-request normalization and validation pipeline of           *)
(* src/main.py (create_shipment and the pure helpers it calls), as a state *)
(* machine.  Strings are TLA+ strings, read character by character with    *)
(* SubSeq.  Weights are integers counted in 1/10000 kg, so that an actual  *)
(* weight given to the thousandth of a kg and a volumetric weight          *)
(* L*W*H/5000 kg are both exact; dimensions are whole centimetres and      *)
(* money is whole rupees.                                                  *)
(***************************************************************************)
EXTENDS Integers, Sequences, FiniteSets, TLC

\* ------------------------------------------------------------ constants
MAX_WEIGHT_KG == 300
MAX_DIM_CM == 300
VOLUMETRIC_DIVISOR == 5000

\* One kg in the model's weight unit (1/10000 kg).
Scale == 100 * 100
\* One hundredth of a kg (the grid round(x, 2) rounds to) in that unit.
Cent == Scale \div 100

\* Python's None / an optional value.
None == <<>>
Some(v) == <<v>>
Val(o) == o[1]

Max(a, b) == IF a >= b THEN a ELSE b

\* Binds a value to a name: Once({ e(v) : v \in {x} }) is e(x), with x evaluated once.
Once(S) == CHOOSE r \in S : TRUE

\* ------------------------------------------------------------ strings
Ch(s, i) == SubSeq(s, i, i)
Rest(s) == SubSeq(s, 2, Len(s))
CharIn(c, alphabet) == \E i \in 1..Len(alphabet) : Ch(alphabet, i) = c
DIGITS == "0123456789"
UPPER == "ABCDEFGHIJKLMNOPQRSTUVWXYZ"
LOWER == "abcdefghijklmnopqrstuvwxyz"
IsDigit(c) == CharIn(c, DIGITS)
IsSpace(c) == c \in {" ", "\t", "\n", "\r", "\f"}
DigitVal(c) == CHOOSE d \in 0..9 : Ch(DIGITS, d + 1) = c

\* str.isdigit() on an ASCII string: non-empty and all digits.
isdigit(s) == s # "" /\ \A i \in 1..Len(s) : IsDigit(Ch(s, i))

\* int(s) for a string of ASCII digits.
RECURSIVE ToInt(_)
ToInt(s) ==
    Once({ IF v = "" THEN 0 ELSE 10 * ToInt(SubSeq(v, 1, Len(v) - 1)) + DigitVal(Ch(v, Len(v)))
           : v \in {s} })

LowerChar(c) == IF CharIn(c, UPPER) THEN Ch(LOWER, CHOOSE i \in 1..26 : Ch(UPPER, i) = c) ELSE c

\* str.lower()
RECURSIVE lower(_)
lower(s) == Once({ IF v = "" THEN "" ELSE LowerChar(Ch(v, 1)) \o lower(Rest(v)) : v \in {s} })

RECURSIVE LStrip(_)
LStrip(s) == Once({ IF v # "" /\ IsSpace(Ch(v, 1)) THEN LStrip(Rest(v)) ELSE v : v \in {s} })

RECURSIVE RStrip(_)
RStrip(s) ==
    Once({ IF v # "" /\ IsSpace(Ch(v, Len(v))) THEN RStrip(SubSeq(v, 1, Len(v) - 1)) ELSE v
           : v \in {s} })

\* str.strip()
strip(s) == RStrip(LStrip(s))

\* str.replace(a, b) for a single character a.
RECURSIVE replace(_, _, _)
replace(s, a, b) ==
    Once({ IF v = "" THEN "" ELSE (IF Ch(v, 1) = a THEN b ELSE Ch(v, 1)) \o replace(Rest(v), a, b)
           : v \in {s} })

\* " ".join(s.split()): runs of whitespace collapse to one space, none at the ends.
RECURSIVE Collapse(_)
Collapse(t) ==
    Once({ IF v = "" THEN ""
           ELSE IF IsSpace(Ch(v, 1)) THEN " " \o Collapse(LStrip(v))
           ELSE Ch(v, 1) \o Collapse(Rest(v))
           : v \in {t} })

JoinSplit(s) == Collapse(strip(s))

\* key in text
Contains(text, key) ==
    \E i \in 0..(Len(text) - Len(key)) : SubSeq(text, i + 1, i + Len(key)) = key

startswith(s, p) == Len(s) >= Len(p) /\ SubSeq(s, 1, Len(p)) = p

\* re.sub(r"\D", "", s)
RECURSIVE DigitsOf(_)
DigitsOf(s) ==
    Once({ IF v = "" THEN "" ELSE (IF IsDigit(Ch(v, 1)) THEN Ch(v, 1) ELSE "") \o DigitsOf(Rest(v))
           : v \in {s} })

\* ------------------------------------------------------------ lexicon tables
\* Declaration order matters: the partial match scans the keys in this order.
CARRIER_SLUG_MAP ==
    << <<"bluedart", "bluedart">>, <<"blue dart", "bluedart">>,
       <<"delhivery", "delhivery">>, <<"delhivery surface", "delhivery-surface">>,
       <<"dtdc", "dtdc">>, <<"ekart", "ekart">>, <<"xpressbees", "xpressbees">>,
       <<"amazon", "amazon-shipping">> >>

CITY_STATE_MAP ==
    "chennai" :> "tamil nadu" @@ "mumbai" :> "maharashtra" @@ "bengaluru" :> "karnataka" @@
    "bangalore" :> "karnataka" @@ "delhi" :> "delhi" @@ "new delhi" :> "delhi" @@
    "kolkata" :> "west bengal" @@ "hyderabad" :> "telangana" @@ "pune" :> "maharashtra" @@
    "ahmedabad" :> "gujarat" @@ "surat" :> "gujarat" @@ "jaipur" :> "rajasthan" @@
    "lucknow" :> "uttar pradesh" @@ "kanpur" :> "uttar pradesh" @@ "nagpur" :> "maharashtra" @@
    "indore" :> "madhya pradesh" @@ "thane" :> "maharashra" @@ "bhopal" :> "madhya pradesh" @@
    "visakhapatnam" :> "andhra pradesh" @@ "pimpri-chinchwad" :> "maharashtra" @@ "patna" :> "bihar" @@
    "vadodara" :> "gujarat" @@ "ghaziabad" :> "uttar pradesh" @@ "ludhiana" :> "punjab" @@
    "agra" :> "uttar pradesh" @@ "nashik" :> "maharashtra" @@ "faridabad" :> "haryana" @@
    "meerut" :> "uttar pradesh" @@ "rajkot" :> "gujarat" @@ "kalyan-dombivali" :> "maharashtra" @@
    "vasai-virar" :> "maharashtra" @@ "varanasi" :> "uttar pradesh" @@ "srinagar" :> "jammu and kashmir" @@
    "aurangabad" :> "maharashtra" @@ "dhanbad" :> "jharkhand" @@ "amritsar" :> "punjab" @@
    "navi mumbai" :> "maharashtra" @@ "allahabad" :> "uttar pradesh" @@ "prayagraj" :> "uttar pradesh" @@
    "howrah" :> "west bengal" @@ "ranchi" :> "jharkhand" @@ "gwalior" :> "madhya pradesh" @@
    "jabalpur" :> "madhya pradesh" @@ "coimbatore" :> "tamil nadu" @@ "vijayawada" :> "andhra pradesh" @@
    "jodhpur" :> "rajasthan" @@ "madurai" :> "tamil nadu" @@ "raipur" :> "chhattisgarh" @@
    "kota" :> "rajasthan" @@ "chandigarh" :> "chandigarh" @@ "guwahati" :> "assam" @@
    "solapur" :> "maharashtra" @@ "hubballi-dharwad" :> "karnataka" @@ "bareilly" :> "uttar pradesh" @@
    "moradabad" :> "uttar pradesh" @@ "mysore" :> "karnataka" @@ "mysuru" :> "karnataka" @@
    "gurgaon" :> "haryana" @@ "gurugram" :> "haryana" @@ "aligarh" :> "uttar pradesh" @@
    "jalandhar" :> "punjab" @@ "tiruchirappalli" :> "tamil nadu" @@ "bhubaneswar" :> "odisha" @@
    "salem" :> "tamil nadu" @@ "warangal" :> "telangana" @@ "guntur" :> "andhra pradesh" @@
    "bhiwandi" :> "maharashtra" @@ "saharanpur" :> "uttar pradesh" @@ "gorakhpur" :> "uttar pradesh" @@
    "bikaner" :> "rajasthan" @@ "amravati" :> "maharashtra" @@ "noida" :> "uttar pradesh" @@
    "jamshedpur" :> "jharkhand" @@ "bhilai" :> "chhattisgarh" @@ "cuttack" :> "odisha" @@
    "firozabad" :> "uttar pradesh" @@ "kochi" :> "kerala" @@ "cochin" :> "kerala" @@
    "nellore" :> "andhra pradesh" @@ "bhavnagar" :> "gujarat" @@ "dehradun" :> "uttarakhand" @@
    "durgapur" :> "west bengal" @@ "asansol" :> "west bengal" @@ "rourkela" :> "odisha" @@
    "nanded" :> "maharashtra" @@ "kolhapur" :> "maharashtra" @@ "ajmer" :> "rajasthan" @@
    "akola" :> "maharashtra" @@ "gulbarga" :> "karnataka" @@ "jamnagar" :> "gujarat" @@
    "ujjain" :> "madhya pradesh" @@ "loni" :> "uttar pradesh" @@ "siliguri" :> "west bengal" @@
    "jhansi" :> "uttar pradesh" @@ "ulhasnagar" :> "maharashtra" @@ "jammu" :> "jammu and kashmir" @@
    "sangli-miraj" :> "maharashtra" @@ "mangalore" :> "karnataka" @@ "erode" :> "tamil nadu" @@
    "belgaum" :> "karnataka" @@ "belagavi" :> "karnataka" @@ "ambattur" :> "tamil nadu" @@
    "tirunelveli" :> "tamil nadu" @@ "malegaon" :> "maharashtra" @@ "gaya" :> "bihar" @@
    "jalgaon" :> "maharashtra" @@ "udaipur" :> "rajasthan" @@ "maheshtala" :> "west bengal" @@
    "tiruppur" :> "tamil nadu" @@ "davanagere" :> "karnataka" @@ "kozhikode" :> "kerala" @@
    "calicut" :> "kerala" @@ "kurnool" :> "andhra pradesh" @@ "rajpur sonarpur" :> "west bengal" @@
    "rajahmundry" :> "andhra pradesh" @@ "bokaro" :> "jharkhand" @@ "south dumdum" :> "west bengal" @@
    "bellary" :> "karnataka" @@ "patiala" :> "punjab" @@ "gopalpur" :> "west bengal" @@
    "agartala" :> "tripura" @@ "bhagalpur" :> "bihar" @@ "muzaffarnagar" :> "uttar pradesh" @@
    "bhatpara" :> "west bengal" @@ "panihati" :> "west bengal" @@ "latur" :> "maharashtra" @@
    "dhule" :> "maharashtra" @@ "rohtak" :> "haryana" @@ "korba" :> "chhattisgarh" @@
    "bhilwara" :> "rajasthan" @@ "brahmapur" :> "odisha" @@ "berhampur" :> "odisha" @@
    "muzaffarpur" :> "bihar" @@ "ahmednagar" :> "maharashtra" @@ "mathura" :> "uttar pradesh" @@
    "kollam" :> "kerala" @@ "avadi" :> "tamil nadu" @@ "kadapa" :> "andhra pradesh" @@
    "kamarhati" :> "west bengal" @@ "sambalpur" :> "odisha" @@ "bilaspur" :> "chhattisgarh" @@
    "shahjahanpur" :> "uttar pradesh" @@ "satara" :> "maharashtra" @@ "bijapur" :> "karnataka" @@
    "rampur" :> "uttar pradesh" @@ "shivamogga" :> "karnataka" @@ "shimoga" :> "karnataka" @@
    "chandrapur" :> "maharashtra" @@ "junagadh" :> "gujarat" @@ "thrissur" :> "kerala" @@
    "alwar" :> "rajasthan" @@ "bardhaman" :> "west bengal" @@ "kulti" :> "west bengal" @@
    "kakinada" :> "andhra pradesh" @@ "nizamabad" :> "telangana" @@ "parbhani" :> "maharashtra" @@
    "tumkur" :> "karnataka" @@ "khammam" :> "telangana" @@ "ozhukarai" :> "puducherry" @@
    "bihar sharif" :> "bihar" @@ "panipat" :> "haryana" @@ "darbhanga" :> "bihar" @@
    "bally" :> "west bengal" @@ "aizawl" :> "mizoram" @@ "dewas" :> "madhya pradesh" @@
    "ichalkaranji" :> "maharashtra" @@ "karnal" :> "haryana" @@ "bathinda" :> "punjab" @@
    "jalna" :> "maharashtra" @@ "eluru" :> "andhra pradesh" @@ "kirari suleman nagar" :> "delhi" @@
    "barasat" :> "west bengal" @@ "purnia" :> "bihar" @@ "satna" :> "madhya pradesh" @@
    "mira-bhayandar" :> "maharashtra" @@ "karimnagar" :> "telangana" @@ "etawah" :> "uttar pradesh" @@
    "bharatpur" :> "rajasthan" @@ "begusarai" :> "bihar" @@ "chhapra" :> "bihar" @@
    "ramagundam" :> "telangana" @@ "pali" :> "rajasthan" @@ "vizianagaram" :> "andhra pradesh" @@
    "katihar" :> "bihar" @@ "hardwar" :> "uttarakhand" @@ "haridwar" :> "uttarakhand" @@
    "sonipat" :> "haryana" @@ "nagercoil" :> "tamil nadu" @@ "thanjavur" :> "tamil nadu" @@
    "murwara" :> "madhya pradesh" @@ "naihati" :> "west bengal" @@ "sambhal" :> "uttar pradesh" @@
    "nadiad" :> "gujarat" @@ "yamunanagar" :> "haryana" @@ "english bazar" :> "west bengal" @@
    "unnao" :> "uttar pradesh" @@ "secunderabad" :> "telangana" @@ "margao" :> "goa" @@
    "vasco da gama" :> "goa" @@ "porbandar" :> "gujarat" @@ "anand" :> "gujarat" @@
    "ratlam" :> "madhya pradesh" @@ "morbi" :> "gujarat" @@ "pondicherry" :> "puducherry" @@
    "puducherry" :> "puducherry" @@ "gandhidham" :> "gujarat" @@ "veraval" :> "gujarat" @@
    "madras" :> "tamil nadu" @@ "bombay" :> "maharashtra" @@ "calcutta" :> "west bengal"

CITY_ALIASES ==
    "bangalore" :> "bengaluru" @@ "bombay" :> "mumbai" @@ "calcutta" :> "kolkata" @@
    "madras" :> "chennai" @@ "mysore" :> "mysuru" @@ "cochin" :> "kochi" @@
    "calicut" :> "kozhikode" @@ "trivandrum" :> "thiruvananthapuram" @@ "poona" :> "pune" @@
    "baroda" :> "vadodara" @@ "allahabad" :> "prayagraj"

RESIDENTIAL_KEYWORDS == {"home", "house", "flat", "apartment", "villa", "lane", "society"}
BUSINESS_KEYWORDS == {"pvt", "ltd", "llp", "inc", "corp", "technologies", "enterprises"}

\* ------------------------------------------------------------ pure helpers
\* (mutant) the scan keeps the last matching key, not the first.
RECURSIVE FirstKeyIn_LastDeclared(_, _)
FirstKeyIn_LastDeclared(desc_lower, i) ==
    IF i > Len(CARRIER_SLUG_MAP) THEN "auto"
    ELSE LET later == FirstKeyIn_LastDeclared(desc_lower, i + 1)
         IN  IF later # "auto" THEN later
             ELSE IF Contains(desc_lower, CARRIER_SLUG_MAP[i][1]) THEN CARRIER_SLUG_MAP[i][2]
             ELSE "auto"

\* _get_slug_from_description: the partial match, from the i-th key on.
RECURSIVE FirstKeyIn(_, _)
FirstKeyIn(desc_lower, i) ==
    IF i > Len(CARRIER_SLUG_MAP) THEN "auto"
    ELSE IF Contains(desc_lower, CARRIER_SLUG_MAP[i][1]) THEN CARRIER_SLUG_MAP[i][2]
    ELSE FirstKeyIn(desc_lower, i + 1)

get_slug_from_description(description) ==
    IF description = "" THEN "auto"
    ELSE LET desc_lower == strip(lower(description))
         IN  IF \E i \in 1..Len(CARRIER_SLUG_MAP) : CARRIER_SLUG_MAP[i][1] = desc_lower
             THEN CARRIER_SLUG_MAP[CHOOSE i \in 1..Len(CARRIER_SLUG_MAP) :
                                       CARRIER_SLUG_MAP[i][1] = desc_lower][2]
             ELSE FirstKeyIn(desc_lower, 1)

\* CITY_STATE_MAP.get(k)
CityStateGet(k) == IF k \in DOMAIN CITY_STATE_MAP THEN Some(CITY_STATE_MAP[k]) ELSE None

\* (mutant) the alias table is not consulted.
infer_state_from_city_NoAlias(city) ==
    IF city = "" THEN None
    ELSE LET norm == JoinSplit(replace(replace(lower(strip(city)), ",", ""), ".", ""))
             alt == replace(norm, " ", "-")
             alt2 == replace(norm, "-", " ")
         IN  IF CityStateGet(norm) # None THEN CityStateGet(norm)
             ELSE IF CityStateGet(alt) # None THEN CityStateGet(alt)
             ELSE CityStateGet(alt2)

\* infer_state_from_city: the state as Some(state), or None.
infer_state_from_city(city) ==
    IF city = "" THEN None
    ELSE LET norm0 == JoinSplit(replace(replace(lower(strip(city)), ",", ""), ".", ""))
             norm == IF norm0 \in DOMAIN CITY_ALIASES THEN CITY_ALIASES[norm0] ELSE norm0
             alt == replace(norm, " ", "-")
             alt2 == replace(norm, "-", " ")
         IN  IF CityStateGet(norm) # None THEN CityStateGet(norm)
             ELSE IF CityStateGet(alt) # None THEN CityStateGet(alt)
             ELSE CityStateGet(alt2)

\* (mutant) a leading '91' is dropped whatever the number of digits.
normalize_phone_Drops91(phone) ==
    IF phone = "" THEN None
    ELSE LET digits0 == DigitsOf(phone)
             digits == IF startswith(digits0, "91")
                       THEN SubSeq(digits0, 3, Len(digits0)) ELSE digits0
         IN  IF Len(digits) # 10 \/ ~CharIn(Ch(digits, 1), "6789") THEN None ELSE Some(digits)

\* normalize_phone: the 10 digits as Some(digits), or None.
normalize_phone(phone) ==
    IF phone = "" THEN None
    ELSE LET digits0 == DigitsOf(phone)
             digits == IF startswith(digits0, "91") /\ Len(digits0) = 12
                       THEN SubSeq(digits0, 3, 12) ELSE digits0
         IN  IF Len(digits) # 10 \/ ~CharIn(Ch(digits, 1), "6789") THEN None ELSE Some(digits)

\* validate_pincode: re.fullmatch(r"[1-9][0-9]{5}", pincode)
validate_pincode(pincode) ==
    /\ pincode # ""
    /\ Len(pincode) = 6
    /\ CharIn(Ch(pincode, 1), "123456789")
    /\ \A i \in 2..6 : IsDigit(Ch(pincode, i))

\* One dimension's check inside validate_parcel_dimensions' loop.
DimError(name, val) ==
    IF val < 0 THEN Some(name \o " cannot be negative.")
    ELSE IF val > MAX_DIM_CM THEN Some(name \o " exceeds max allowed.")
    ELSE None

\* (mutant) the dimensions are checked before the weight.
validate_parcel_dimensions_DimsFirst(weight, length, width, height) ==
    IF DimError("Length", length) # None THEN DimError("Length", length)
    ELSE IF DimError("Width", width) # None THEN DimError("Width", width)
    ELSE IF DimError("Height", height) # None THEN DimError("Height", height)
    ELSE IF weight <= 0 THEN Some("Parcel weight must be greater than 0.")
    ELSE IF weight > MAX_WEIGHT_KG * Scale THEN Some("Parcel weight exceeds max allowed.")
    ELSE None

\* validate_parcel_dimensions: the first violation's reason as Some(reason), or None.
validate_parcel_dimensions(weight, length, width, height) ==
    IF weight <= 0 THEN Some("Parcel weight must be greater than 0.")
    ELSE IF weight > MAX_WEIGHT_KG * Scale THEN Some("Parcel weight exceeds max allowed.")
    ELSE IF DimError("Length", length) # None THEN DimError("Length", length)
    ELSE IF DimError("Width", width) # None THEN DimError("Width", width)
    ELSE DimError("Height", height)

\* 2^k mod 25, for k >= 0 (2 has order 20 modulo 25).
RECURSIVE Pow2Mod25(_)
Pow2Mod25(k) == IF k % 20 = 0 THEN 1 ELSE (2 * Pow2Mod25((k % 20) - 1)) % 25

\* floor(log2(n / 200)) for n >= 1.
RECURSIVE Log2Over200(_, _)
Log2Over200(n, d) ==
    IF n >= 2 * d THEN 1 + Log2Over200(n, 2 * d)
    ELSE IF n < d THEN Log2Over200(2 * n, d) - 1
    ELSE 0

\* Whether the double nearest to n/200 (n odd, 25 not dividing n) lies above n/200:
\* its 53-bit significand is n * 2^(t-3) / 25 rounded, with t = 52 - floor(log2(n/200)).
DoubleAbove(n) ==
    LET t == 52 - Log2Over200(n, 200)
    IN  ((n % 25) * Pow2Mod25(t - 3)) % 25 >= 13

\* round(x, 2) of the double nearest to v/10000 kg, v >= 0: Python rounds the exact
\* binary value correctly, half to even; a decimal tie is an exact tie only when v/10000
\* is a binary fraction, and otherwise falls to the side the double lies on.
RoundNonNeg(v) ==
    LET q == v \div Cent
        r == v % Cent
        n == 2 * q + 1
        up == IF 2 * r # Cent THEN 2 * r > Cent
              ELSE IF n % 25 = 0 THEN q % 2 = 1
              ELSE DoubleAbove(n)
    IN  IF up THEN (q + 1) * Cent ELSE q * Cent

Round2(v) == IF v >= 0 THEN RoundNonNeg(v) ELSE 0 - RoundNonNeg(0 - v)

\* (mutant) the maximum is returned unrounded.
compute_chargeable_weight_Unrounded(actual_kg, l, w, h) ==
    Max(actual_kg, (l * w * h) * (Scale \div VOLUMETRIC_DIVISOR))

\* compute_chargeable_weight
compute_chargeable_weight(actual_kg, l, w, h) ==
    LET volumetric_kg == (l * w * h) * (Scale \div VOLUMETRIC_DIVISOR)
    IN  Round2(Max(actual_kg, volumetric_kg))

\* (mutant) the thresholds are inclusive: 10 kg is already surface.
infer_service_type_Inclusive(weight_kg, carrier_slug) ==
    IF carrier_slug = "delhivery"
    THEN (IF weight_kg >= 10 * Scale THEN "delhivery-surface" ELSE "delhivery")
    ELSE IF weight_kg >= 30 * Scale THEN "surface"
    ELSE "express"

\* infer_service_type
infer_service_type(weight_kg, carrier_slug) ==
    IF carrier_slug = "delhivery"
    THEN (IF weight_kg > 10 * Scale THEN "delhivery-surface" ELSE "delhivery")
    ELSE IF weight_kg > 30 * Scale THEN "surface"
    ELSE "express"

\* (mutant) a residential keyword is looked for before a business one.
infer_address_type_ResidentialFirst(company, street) ==
    Once({ IF \E k \in RESIDENTIAL_KEYWORDS : Contains(text, k) THEN "residential"
           ELSE IF \E k \in BUSINESS_KEYWORDS : Contains(text, k) THEN "business"
           ELSE IF company # "" THEN "business" ELSE "residential"
           : text \in {lower(company \o " " \o street)} })

\* infer_address_type
infer_address_type(company, street) ==
    Once({ IF \E k \in BUSINESS_KEYWORDS : Contains(text, k) THEN "business"
           ELSE IF \E k \in RESIDENTIAL_KEYWORDS : Contains(text, k) THEN "residential"
           ELSE IF company # "" THEN "business" ELSE "residential"
           : text \in {lower(company \o " " \o street)} })

\* ------------------------------------------------------------ dates
MONTH_ABBR == <<"jan", "feb", "mar", "apr", "may", "jun",
                "jul", "aug", "sep", "oct", "nov", "dec">>

\* strptime's directive patterns (ASCII): the value a token converts to, or None.
\*   %d  3[0-1]|[1-2]\d|0[1-9]|[1-9]| [1-9]
\*   %m  1[0-2]|0[1-9]|[1-9]
\*   %Y  \d\d\d\d
\*   %b  jan|feb|...|dec, case-insensitive
TokenValue(kind, tok) ==
    CASE kind = "d" ->
           IF Len(tok) = 2 /\ Ch(tok, 1) = " " /\ CharIn(Ch(tok, 2), "123456789")
           THEN Some(DigitVal(Ch(tok, 2)))
           ELSE IF Len(tok) \in {1, 2} /\ isdigit(tok) /\ ToInt(tok) \in 1..31
                THEN Some(ToInt(tok)) ELSE None
      [] kind = "m" ->
           IF Len(tok) \in {1, 2} /\ isdigit(tok) /\ ToInt(tok) \in 1..12
           THEN Some(ToInt(tok)) ELSE None
      [] kind = "Y" ->
           IF Len(tok) = 4 /\ isdigit(tok) THEN Some(ToInt(tok)) ELSE None
      [] kind = "b" ->
           IF \E i \in 1..12 : MONTH_ABBR[i] = lower(tok)
           THEN Some(CHOOSE i \in 1..12 : MONTH_ABBR[i] = lower(tok)) ELSE None

\* A separator of the format: a literal character, or (for a space) \s+.
MatchSep(sep, t) ==
    IF sep = " " THEN t # "" /\ \A i \in 1..Len(t) : IsSpace(Ch(t, i)) ELSE t = sep

\* The ways s splits as token sep token sep token, the whole string consumed.
Splits(s, sep, kinds) ==
    { p \in (1..4) \X (1..Len(s)) \X (1..Len(s)) \X (1..Len(s)) :
        /\ p[1] < p[2] /\ p[2] < p[3] /\ p[3] < p[4] /\ p[4] < Len(s)
        /\ p[3] - p[2] <= 4 /\ Len(s) - p[4] <= 4
        /\ TokenValue(kinds[1], SubSeq(s, 1, p[1])) # None
        /\ MatchSep(sep, SubSeq(s, p[1] + 1, p[2]))
        /\ TokenValue(kinds[2], SubSeq(s, p[2] + 1, p[3])) # None
        /\ MatchSep(sep, SubSeq(s, p[3] + 1, p[4]))
        /\ TokenValue(kinds[3], SubSeq(s, p[4] + 1, Len(s))) # None }

IsLeap(y) == (y % 4 = 0 /\ y % 100 # 0) \/ y % 400 = 0

DaysInMonth(y, m) ==
    IF m = 2 THEN (IF IsLeap(y) THEN 29 ELSE 28)
    ELSE IF m \in {4, 6, 9, 11} THEN 30 ELSE 31

\* datetime.strptime(s, fmt) for a format of three directives around one separator:
\* Some([y, m, d]) or None (ValueError: no match, unconverted data, or no such day).
strptime(s, sep, kinds) ==
    Once({ IF p = None THEN None
           ELSE LET v == [i \in 1..3 |->
                             Val(TokenValue(kinds[i],
                                 CASE i = 1 -> SubSeq(s, 1, Val(p)[1])
                                   [] i = 2 -> SubSeq(s, Val(p)[2] + 1, Val(p)[3])
                                   [] i = 3 -> SubSeq(s, Val(p)[4] + 1, Len(s))))]
                    pos(k) == CHOOSE i \in 1..3 : kinds[i] = k \/ (k = "m" /\ kinds[i] = "b")
                    y == v[pos("Y")]
                    m == v[pos("m")]
                    d == v[pos("d")]
                IN  IF y >= 1 /\ d <= DaysInMonth(y, m) THEN Some([y |-> y, m |-> m, d |-> d])
                    ELSE None
           : p \in { IF S = {} THEN None ELSE Some(CHOOSE q \in S : TRUE)
                     : S \in {Splits(s, sep, kinds)} } })

Pad2(n) == IF n < 10 THEN "0" \o ToString(n) ELSE ToString(n)

\* strftime("%Y-%m-%d"); the C library prints a year below 1000 without padding.
strftime(t) == ToString(t.y) \o "-" \o Pad2(t.m) \o "-" \o Pad2(t.d)

\* The formats normalize_date tries, in order.
DATE_FORMATS ==
    << [sep |-> "-", kinds |-> <<"d", "m", "Y">>],
       [sep |-> "/", kinds |-> <<"d", "m", "Y">>],
       [sep |-> "/", kinds |-> <<"Y", "m", "d">>],
       [sep |-> " ", kinds |-> <<"d", "b", "Y">>] >>

\* normalize_date: Some("YYYY-MM-DD") of the first format that parses, or None.
RECURSIVE TryFormats(_, _)
TryFormats(date_str, i) ==
    IF i > Len(DATE_FORMATS) THEN None
    ELSE LET t == strptime(date_str, DATE_FORMATS[i].sep, DATE_FORMATS[i].kinds)
         IN  IF t # None THEN Some(strftime(Val(t))) ELSE TryFormats(date_str, i + 1)

normalize_date(date_str) == TryFormats(date_str, 1)

\* ------------------------------------------------------------ requests
\* How many of the Deviations an input request may combine.
MaxDeviations == 2

\* A request every stage accepts, and the lookup answers that go with it: the
\* arguments of create_shipment, plus what the pincode service would answer
\* for the sender's and the consignee's pincode.
NoAnswer == [kind |-> "none", city |-> "", state |-> ""]
Info(city, state) == [kind |-> "info", city |-> city, state |-> state]
Raises == [kind |-> "raise", city |-> "", state |-> ""]

BaseInput ==
    [ carrier_description |-> "", service_type |-> "", customer_reference |-> "REF-1",
      ship_from_name |-> "Asha", ship_from_company |-> "", ship_from_street1 |-> "12 MG Road",
      ship_from_street2 |-> "", ship_from_city |-> "Mumbai", ship_from_state |-> "Maharashtra",
      ship_from_pincode |-> "400001", ship_from_phone |-> "9876543210",
      ship_from_email |-> "asha@example.com", ship_from_gstin |-> "",
      ship_to_name |-> "Ravi", ship_to_company |-> "", ship_to_street1 |-> "4 Temple Road",
      ship_to_street2 |-> "", ship_to_city |-> "Chennai", ship_to_state |-> "Tamil Nadu",
      ship_to_pincode |-> "600001", ship_to_phone |-> "9123456780", ship_to_email |-> "",
      parcel_description |-> "Books", parcel_weight_kg |-> 2 * Scale,
      parcel_length_cm |-> 0, parcel_width_cm |-> 0, parcel_height_cm |-> 0,
      item_description |-> "Book", item_quantity |-> 1, item_price |-> 0,
      is_cod |-> FALSE, cod_amount |-> 0, invoice_number |-> "", invoice_date |-> "",
      is_document |-> FALSE, vendor_id |-> "",
      net_from |-> NoAnswer, net_to |-> NoAnswer ]

Dims(l, w, h) == [parcel_length_cm |-> l, parcel_width_cm |-> w, parcel_height_cm |-> h]
Cod(flag, amount) == [is_cod |-> flag, cod_amount |-> amount]

\* The ways an input departs from BaseInput; each overrides some arguments.
Deviations ==
    << [ship_from_name |-> ""], [ship_to_name |-> ""],
       [ship_from_phone |-> ""], [ship_from_phone |-> "12345"],
       [ship_from_phone |-> "0123456789"], [ship_from_phone |-> "+91 98765 43210"],
       [ship_to_phone |-> ""], [ship_to_phone |-> "12345"], [ship_to_phone |-> "5555555555"],
       [ship_from_pincode |-> ""], [ship_from_pincode |-> "012345"],
       [ship_from_pincode |-> "40001"], [ship_from_pincode |-> "4000a1"],
       [ship_to_pincode |-> "060001"], [ship_to_pincode |-> "6000011"],
       [parcel_weight_kg |-> 0], [parcel_weight_kg |-> 0 - Scale],
       [parcel_weight_kg |-> Scale + 40], [parcel_weight_kg |-> 300 * Scale + 10],
       [parcel_weight_kg |-> 15 * Scale], [parcel_weight_kg |-> 10 * Scale],
       [parcel_weight_kg |-> 30 * Scale], [parcel_weight_kg |-> 31 * Scale],
       Dims(50, 50, 50), Dims(0 - 5, 0, 0), Dims(10, 0, 0), Dims(301, 10, 10),
       Dims(10, 10, 0 - 1), Dims(5, 5, 1),
       Cod(TRUE, 500), Cod(TRUE, 0), Cod(FALSE, 500), Cod(TRUE, 0 - 5), Cod(FALSE, 0 - 5),
       [invoice_number |-> "INV-7", invoice_date |-> "31/01/2025",
        item_price |-> 250, item_quantity |-> 2],
       [invoice_date |-> "31-13-2025"], [invoice_date |-> "2025/01/31"],
       [invoice_date |-> "31 Jan 2025"], [invoice_date |-> "1-2-2025"],
       [invoice_date |-> "31-01-0999"], [invoice_date |-> "2025-01-31"],
       [invoice_number |-> "INV-8"],
       [ship_from_state |-> ""], [ship_from_city |-> "", ship_from_state |-> ""],
       [ship_from_city |-> "Atlantis", ship_from_state |-> ""], [ship_from_city |-> ""],
       [ship_to_state |-> ""], [ship_to_city |-> "", ship_to_state |-> ""],
       [ship_to_city |-> "Atlantis", ship_to_state |-> ""],
       [net_from |-> Info("Pune", "Maharashtra")], [net_from |-> Info("", "Kerala")],
       [net_from |-> Info("Nashik", "")], [net_from |-> Raises],
       [net_to |-> Info("Chennai", "Tamil Nadu")], [net_to |-> Info("Atlantis", "")],
       [ship_from_state |-> "", net_from |-> Info("Pune", "Goa")],
       [ship_to_city |-> "", ship_to_state |-> "", net_to |-> Info("Madurai", "Tamil Nadu")],
       [carrier_description |-> "delhivery"],
       [carrier_description |-> "ship via BlueDart express"],
       [service_type |-> "priority"],
       [ship_from_company |-> "Acme Pvt Ltd"], [ship_from_street1 |-> ""],
       [ship_from_gstin |-> "27AAACA1234A1Z5"], [vendor_id |-> "V-9"] >>

Override(r, p) == [f \in DOMAIN r |-> IF f \in DOMAIN p THEN p[f] ELSE r[f]]

\* BaseInput with at most k deviations applied.
RECURSIVE Variants(_)
Variants(k) ==
    IF k = 0 THEN {BaseInput}
    ELSE LET P == Variants(k - 1)
         IN  P \cup { Override(r, Deviations[i]) : r \in P, i \in 1..Len(Deviations) }

Inputs == Variants(MaxDeviations)

ArgNames == DOMAIN BaseInput \ {"net_from", "net_to"}

\* ------------------------------------------------------------ state
VARIABLES
    pc,             \* the stage create_shipment is at
    req,            \* the arguments as passed
    net,            \* what the pincode service answers for each party
    loc,            \* the local variables create_shipment assigns
    result,         \* what create_shipment returns
    shipment_data,  \* the assembled record, None until assembled
    calls,          \* how often each collaborator or helper was invoked
    trace,          \* the stages executed, in order
    fn              \* the application of a pure helper (pure-function specifications)

vars == <<pc, req, net, loc, result, shipment_data, calls, trace, fn>>

Pending == [outcome |-> "pending", msg |-> "", items |-> <<>>]
Rejection(msg, items) == [outcome |-> "rejected", msg |-> msg, items |-> items]

Counted == {"normalize_phone", "compute_chargeable_weight", "infer_service_type",
            "normalize_date", "lookup_from", "lookup_to", "infer_state_from",
            "infer_state_to", "infer_address_type", "submit"}

NoCall == [name |-> "", args |-> <<>>, out |-> <<>>]

\* The locals as create_shipment's parameters bind them on entry.
EntryLocals(r) ==
    [ ship_from_phone |-> r.ship_from_phone, ship_to_phone |-> r.ship_to_phone,
      cod_amount |-> r.cod_amount, service_type |-> r.service_type,
      invoice_date |-> r.invoice_date,
      ship_from_city |-> r.ship_from_city, ship_from_state |-> r.ship_from_state,
      ship_to_city |-> r.ship_to_city, ship_to_state |-> r.ship_to_state,
      actual_carrier_slug |-> "", chargeable_weight |-> 0, missing_states |-> <<>>,
      ship_from_type |-> "", ship_to_type |-> "" ]

Init ==
    \E i \in Inputs :
        /\ req = [f \in ArgNames |-> i[f]]
        /\ net = [from |-> i.net_from, to |-> i.net_to]
        /\ loc = EntryLocals(i)
        /\ pc = "resolve_carrier"
        /\ result = Pending
        /\ shipment_data = None
        /\ calls = [c \in Counted |-> 0]
        /\ trace = <<>>
        /\ fn = NoCall

\* ------------------------------------------------------------ create_shipment
Called(name) == [calls EXCEPT ![name] = @ + 1]

\* The stage runs; what it does to the other variables is the caller's.
Enter(stage) == pc = stage /\ trace' = Append(trace, stage)

\* return <message>: the invocation ends with a rejection.
Return(msg, items) == result' = Rejection(msg, items) /\ pc' = "done"

Goto(stage) == pc' = stage /\ UNCHANGED result

REQUIRED_FIELDS ==
    <<"ship_from_name", "ship_from_pincode", "ship_from_phone",
      "ship_to_name", "ship_to_pincode", "ship_to_phone", "parcel_weight_kg">>

\* (mutant) only the first missing field is reported.
Missing_FirstOnly(r) ==
    LET all == SelectSeq(REQUIRED_FIELDS,
                         LAMBDA k : IF k = "parcel_weight_kg" THEN r[k] = 0 ELSE r[k] = "")
    IN  IF all = <<>> THEN <<>> ELSE <<all[1]>>

\* [k for k, v in REQUIRED_FIELDS.items() if not v]
\* ("not v" holds of an empty string and of a weight of 0)
Missing(r) ==
    SelectSeq(REQUIRED_FIELDS,
              LAMBDA k : IF k = "parcel_weight_kg" THEN r[k] = 0 ELSE r[k] = "")

ResolveCarrier ==
    /\ Enter("resolve_carrier")
    /\ loc' = [loc EXCEPT !.actual_carrier_slug = get_slug_from_description(req.carrier_description)]
    /\ Goto("required_fields")
    /\ UNCHANGED <<req, net, shipment_data, calls, fn>>

\* (mutant) the rejection is recorded but the function does not return.
RequiredFields_NoReturn ==
    /\ Enter("required_fields")
    /\ result' = IF Missing(req) # <<>>
                 THEN Rejection("Missing required fields", Missing(req)) ELSE result
    /\ pc' = "phone_from"
    /\ UNCHANGED <<req, net, loc, shipment_data, calls, fn>>

RequiredFields ==
    /\ Enter("required_fields")
    /\ IF Missing(req) # <<>>
       THEN Return("Missing required fields", Missing(req))
       ELSE Goto("phone_from")
    /\ UNCHANGED <<req, net, loc, shipment_data, calls, fn>>

\* digits[-10:]
Last10(digits) == SubSeq(digits, Len(digits) - 9, Len(digits))

\* (mutant) every phone goes through the strict normalizer.
PhoneStage_Strict(stage, field, role, next) ==
    /\ Enter(stage)
    /\ LET normalized == normalize_phone(loc[field])
       IN  /\ calls' = Called("normalize_phone")
           /\ IF normalized = None \/ Val(normalized) = ""
              THEN /\ Return("Invalid " \o role \o " phone number", <<loc[field]>>)
                   /\ UNCHANGED loc
              ELSE /\ loc' = [loc EXCEPT ![field] = Val(normalized)]
                   /\ Goto(next)
    /\ UNCHANGED <<req, net, shipment_data, fn>>

\* The phone stage for one party: the raw phone, the local it is stored in, the role
\* named in the rejection, and the stage that follows.
PhoneStage(stage, field, role, next) ==
    /\ Enter(stage)
    /\ LET phone_digits == DigitsOf(loc[field])
       IN  IF Len(phone_digits) >= 10
           THEN /\ loc' = [loc EXCEPT ![field] = Last10(phone_digits)]
                /\ Goto(next)
                /\ UNCHANGED calls
           ELSE LET normalized == normalize_phone(loc[field])
                IN  /\ calls' = Called("normalize_phone")
                    /\ IF normalized = None \/ Val(normalized) = ""
                       THEN /\ Return("Invalid " \o role \o " phone number", <<loc[field]>>)
                            /\ UNCHANGED loc
                       ELSE /\ loc' = [loc EXCEPT ![field] = Val(normalized)]
                            /\ Goto(next)
    /\ UNCHANGED <<req, net, shipment_data, fn>>

\* (mutant) the sender phone stage hands over to the pincodes, not the consignee phone.
PhoneFrom_SkipsConsignee == PhoneStage("phone_from", "ship_from_phone", "shipper", "pincode_from")

PhoneFrom == PhoneStage("phone_from", "ship_from_phone", "shipper", "phone_to")
PhoneTo == PhoneStage("phone_to", "ship_to_phone", "consignee", "pincode_from")

\* pincode and len(pincode) == 6 and pincode.isdigit()
PincodeAccepted(pincode) == pincode # "" /\ Len(pincode) = 6 /\ isdigit(pincode)

PincodeStage(stage, field, role, next) ==
    /\ Enter(stage)
    /\ IF ~PincodeAccepted(req[field])
       THEN Return("Invalid " \o role \o " pincode", <<req[field]>>)
       ELSE Goto(next)
    /\ UNCHANGED <<req, net, loc, shipment_data, calls, fn>>

PincodeFrom == PincodeStage("pincode_from", "ship_from_pincode", "shipper", "pincode_to")
PincodeTo == PincodeStage("pincode_to", "ship_to_pincode", "consignee", "parcel")

\* The parcel stage's verdict: Some(reason) or None.
ParcelError(r) ==
    IF r.parcel_length_cm > 0 \/ r.parcel_width_cm > 0 \/ r.parcel_height_cm > 0
    THEN validate_parcel_dimensions(r.parcel_weight_kg, r.parcel_length_cm,
                                    r.parcel_width_cm, r.parcel_height_cm)
    ELSE IF r.parcel_weight_kg > MAX_WEIGHT_KG * Scale
    THEN Some("Parcel weight exceeds max allowed.")
    ELSE None

Parcel ==
    /\ Enter("parcel")
    /\ IF ParcelError(req) # None
       THEN Return(Val(ParcelError(req)), <<>>)
       ELSE Goto("cod")
    /\ UNCHANGED <<req, net, loc, shipment_data, calls, fn>>

\* (mutant) COD with a non-positive amount is let through.
CodStage_NoReject ==
    /\ Enter("cod")
    /\ loc' = IF ~req.is_cod /\ loc.cod_amount > 0
              THEN [loc EXCEPT !.cod_amount = 0] ELSE loc
    /\ Goto("chargeable")
    /\ UNCHANGED <<req, net, shipment_data, calls, fn>>

CodStage ==
    /\ Enter("cod")
    /\ IF req.is_cod /\ loc.cod_amount <= 0
       THEN /\ Return("COD amount must be greater than 0 when COD is enabled.", <<>>)
            /\ UNCHANGED loc
       ELSE /\ loc' = IF ~req.is_cod /\ loc.cod_amount > 0
                      THEN [loc EXCEPT !.cod_amount = 0] ELSE loc
            /\ Goto("chargeable")
    /\ UNCHANGED <<req, net, shipment_data, calls, fn>>

\* (mutant) the volumetric weight is computed as soon as any dimension is positive.
Chargeable_AnyDimension ==
    /\ Enter("chargeable")
    /\ IF req.parcel_length_cm > 0 \/ req.parcel_width_cm > 0 \/ req.parcel_height_cm > 0
       THEN /\ loc' = [loc EXCEPT !.chargeable_weight =
                          compute_chargeable_weight(req.parcel_weight_kg, req.parcel_length_cm,
                                                    req.parcel_width_cm, req.parcel_height_cm)]
            /\ calls' = Called("compute_chargeable_weight")
       ELSE /\ loc' = [loc EXCEPT !.chargeable_weight = req.parcel_weight_kg]
            /\ UNCHANGED calls
    /\ Goto("service")
    /\ UNCHANGED <<req, net, shipment_data, fn>>

Chargeable ==
    /\ Enter("chargeable")
    /\ IF req.parcel_length_cm > 0 /\ req.parcel_width_cm > 0 /\ req.parcel_height_cm > 0
       THEN /\ loc' = [loc EXCEPT !.chargeable_weight =
                          compute_chargeable_weight(req.parcel_weight_kg, req.parcel_length_cm,
                                                    req.parcel_width_cm, req.parcel_height_cm)]
            /\ calls' = Called("compute_chargeable_weight")
       ELSE /\ loc' = [loc EXCEPT !.chargeable_weight = req.parcel_weight_kg]
            /\ UNCHANGED calls
    /\ Goto("service")
    /\ UNCHANGED <<req, net, shipment_data, fn>>

Service ==
    /\ Enter("service")
    /\ IF loc.service_type = ""
       THEN /\ loc' = [loc EXCEPT !.service_type =
                          infer_service_type(req.parcel_weight_kg, loc.actual_carrier_slug)]
            /\ calls' = Called("infer_service_type")
       ELSE UNCHANGED <<loc, calls>>
    /\ Goto("invoice_date")
    /\ UNCHANGED <<req, net, shipment_data, fn>>

InvoiceDate ==
    /\ Enter("invoice_date")
    /\ IF loc.invoice_date # ""
       THEN LET normalized_date == normalize_date(loc.invoice_date)
            IN  /\ calls' = Called("normalize_date")
                /\ IF normalized_date = None
                   THEN /\ Return("Invalid invoice date format", <<loc.invoice_date>>)
                        /\ UNCHANGED loc
                   ELSE /\ loc' = [loc EXCEPT !.invoice_date = Val(normalized_date)]
                        /\ Goto("lookup_from")
       ELSE /\ Goto("lookup_from")
            /\ UNCHANGED <<loc, calls>>
    /\ UNCHANGED <<req, net, shipment_data, fn>>

\* lookup_pincode: None for a pincode it will not query, else what the service
\* answers: Some(info), None on any failure it catches, or an exception ("raise").
lookup_pincode(pincode, answer) ==
    IF pincode = "" \/ Len(pincode) # 6 \/ ~isdigit(pincode) THEN NoAnswer ELSE answer

\* (mutant) the lookup's answer fills the city only.
Fill_CityOnly(l, info, city, state) ==
    IF info.kind = "info"
    THEN [l EXCEPT ![city] = IF l[city] # "" THEN l[city] ELSE info.city]
    ELSE l

\* (mutant) the lookup's answer replaces the city and state, supplied or not.
Fill_Overwrites(l, info, city, state) ==
    IF info.kind = "info"
    THEN [l EXCEPT ![city] = info.city, ![state] = info.state]
    ELSE l

\* What a lookup's answer does to the locals: info fills the city and the state
\* that are still empty ("x = x or info.get(...)").
Fill(l, info, city, state) ==
    IF info.kind = "info"
    THEN [l EXCEPT ![city] = IF l[city] # "" THEN l[city] ELSE info.city,
                   ![state] = IF l[state] # "" THEN l[state] ELSE info.state]
    ELSE l

\* Whether the lookup is invoked for a party: a pincode, and city or state missing.
NeedsLookup(r, l, pincode, city, state) == r[pincode] # "" /\ (l[city] = "" \/ l[state] = "")

\* The lookup stage for one party up to its await.
LookupStage(stage, pincode, city, state, counter, await, next) ==
    /\ Enter(stage)
    /\ IF NeedsLookup(req, loc, pincode, city, state)
       THEN /\ calls' = Called(counter)
            /\ Goto(await)
       ELSE /\ UNCHANGED calls
            /\ Goto(next)
    /\ UNCHANGED <<req, net, loc, shipment_data, fn>>

\* (mutant) an exception of the lookup is not caught: the invocation ends with it.
LookupReturn_Propagates(await, pincode, city, state, party, next) ==
    /\ pc = await
    /\ IF lookup_pincode(req[pincode], net[party]).kind = "raise"
       THEN /\ result' = [outcome |-> "raised", msg |-> "lookup_pincode", items |-> <<>>]
            /\ pc' = "done"
            /\ UNCHANGED loc
       ELSE /\ loc' = Fill(loc, lookup_pincode(req[pincode], net[party]), city, state)
            /\ Goto(next)
    /\ UNCHANGED <<req, net, shipment_data, calls, trace, fn>>

\* The lookup's answer arrives: info fills what is still empty; None or an
\* exception leaves the locals alone.
LookupReturn(await, pincode, city, state, party, next) ==
    /\ pc = await
    /\ loc' = Fill(loc, lookup_pincode(req[pincode], net[party]), city, state)
    /\ Goto(next)
    /\ UNCHANGED <<req, net, shipment_data, calls, trace, fn>>

LookupFrom ==
    LookupStage("lookup_from", "ship_from_pincode", "ship_from_city", "ship_from_state",
                "lookup_from", "await_lookup_from", "lookup_to")
\* (mutant) once the sender's lookup has answered, inference starts without
\* the consignee's lookup.
LookupFromReturn_SkipsJoin ==
    LookupReturn("await_lookup_from", "ship_from_pincode", "ship_from_city",
                 "ship_from_state", "from", "infer_states")

LookupFromReturn ==
    LookupReturn("await_lookup_from", "ship_from_pincode", "ship_from_city",
                 "ship_from_state", "from", "lookup_to")
LookupTo ==
    LookupStage("lookup_to", "ship_to_pincode", "ship_to_city", "ship_to_state",
                "lookup_to", "await_lookup_to", "infer_states")
\* (mutant) the consignee's lookup is tried a second time.
LookupToReturn_Retry ==
    LookupReturn("await_lookup_to", "ship_to_pincode", "ship_to_city", "ship_to_state", "to",
                 IF calls["lookup_to"] < 2 THEN "lookup_to" ELSE "infer_states")

LookupToReturn ==
    LookupReturn("await_lookup_to", "ship_to_pincode", "ship_to_city",
                 "ship_to_state", "to", "infer_states")

\* Whether local inference runs for a party: city known, state not.
NeedsInference(l, city, state) == l[city] # "" /\ l[state] = ""

\* The locals after local inference for one party: the state filled in, or the
\* party appended to missing_states.
InferParty(l, city, state, role) ==
    IF ~NeedsInference(l, city, state) THEN l
    ELSE LET inferred == infer_state_from_city(l[city])
         IN  IF inferred # None /\ Val(inferred) # ""
             THEN [l EXCEPT ![state] = Val(inferred)]
             ELSE [l EXCEPT !.missing_states =
                       Append(@, role \o " (city: " \o l[city] \o ")")]

InferStates ==
    /\ Enter("infer_states")
    /\ loc' = InferParty(InferParty([loc EXCEPT !.missing_states = <<>>],
                                    "ship_from_city", "ship_from_state", "sender"),
                         "ship_to_city", "ship_to_state", "consignee")
    /\ calls' = [calls EXCEPT
                   !["infer_state_from"] =
                       @ + (IF NeedsInference(loc, "ship_from_city", "ship_from_state")
                            THEN 1 ELSE 0),
                   !["infer_state_to"] =
                       @ + (IF NeedsInference(loc, "ship_to_city", "ship_to_state")
                            THEN 1 ELSE 0)]
    /\ Goto("missing_states")
    /\ UNCHANGED <<req, net, shipment_data, fn>>

MissingStates ==
    /\ Enter("missing_states")
    /\ IF loc.missing_states # <<>>
       THEN IF Len(loc.missing_states) = 1
            THEN Return("Please provide the state for the", loc.missing_states)
            ELSE Return("Please provide the states for", loc.missing_states)
       ELSE Goto("address_types")
    /\ UNCHANGED <<req, net, loc, shipment_data, calls, fn>>

\* The address type of one party.
AddressType(company, street1) ==
    IF company = "" /\ street1 = "" THEN "residential"
    ELSE infer_address_type(company, street1)

AddressTypes ==
    /\ Enter("address_types")
    /\ loc' = [loc EXCEPT
                 !.ship_from_type = AddressType(req.ship_from_company, req.ship_from_street1),
                 !.ship_to_type = AddressType(req.ship_to_company, req.ship_to_street1)]
    /\ calls' = [calls EXCEPT !["infer_address_type"] =
                    @ + (IF req.ship_from_company = "" /\ req.ship_from_street1 = ""
                         THEN 0 ELSE 1)
                      + (IF req.ship_to_company = "" /\ req.ship_to_street1 = ""
                         THEN 0 ELSE 1)]
    /\ Goto("assemble")
    /\ UNCHANGED <<req, net, shipment_data, fn>>

\* An address block of the record; tax_id is present only when a GSTIN was given.
Address(name, company, street1, street2, city, state, pincode, phone, email, type, tax_id) ==
    [ contact_name |-> name, company_name |-> company, street1 |-> street1,
      street2 |-> street2, city |-> city, state |-> state, postal_code |-> pincode,
      phone |-> phone, email |-> email, country |-> "IN", type |-> type,
      tax_id |-> tax_id ]

\* The ship_from block, with the tax id set as the optional-fields step sets it.
ShipFrom(r, l) ==
    Address(r.ship_from_name, r.ship_from_company, r.ship_from_street1, r.ship_from_street2,
            l.ship_from_city, l.ship_from_state, r.ship_from_pincode, l.ship_from_phone,
            r.ship_from_email, l.ship_from_type,
            IF r.ship_from_gstin # "" THEN Some(r.ship_from_gstin) ELSE None)

ShipTo(r, l) ==
    Address(r.ship_to_name, r.ship_to_company, r.ship_to_street1, r.ship_to_street2,
            l.ship_to_city, l.ship_to_state, r.ship_to_pincode, l.ship_to_phone,
            IF r.ship_to_email # "" THEN r.ship_to_email ELSE r.ship_from_email,
            l.ship_to_type, None)

\* (mutant) the return-to block takes the city and state as the caller passed them.
ReturnTo_Raw(r, l) ==
    Address(r.ship_from_name, r.ship_from_company, r.ship_from_street1, r.ship_from_street2,
            r.ship_from_city, r.ship_from_state, r.ship_from_pincode, l.ship_from_phone,
            r.ship_from_email, l.ship_from_type,
            IF r.ship_from_gstin # "" THEN Some(r.ship_from_gstin) ELSE None)

ReturnTo(r, l) ==
    Address(r.ship_from_name, r.ship_from_company, r.ship_from_street1, r.ship_from_street2,
            l.ship_from_city, l.ship_from_state, r.ship_from_pincode, l.ship_from_phone,
            r.ship_from_email, l.ship_from_type,
            IF r.ship_from_gstin # "" THEN Some(r.ship_from_gstin) ELSE None)

ParcelOf(r) ==
    [ description |-> r.parcel_description, box_type |-> "custom", quantity |-> 1,
      weight |-> [value |-> r.parcel_weight_kg, unit |-> "kg"],
      dimension |-> [width |-> r.parcel_width_cm, height |-> r.parcel_height_cm,
                     length |-> r.parcel_length_cm, unit |-> "cm"],
      items |-> << [ description |-> r.item_description, origin_country |-> "IN",
                     quantity |-> r.item_quantity,
                     weight |-> [value |-> r.parcel_weight_kg, unit |-> "kg"] ] >> ]

\* gst_invoices: one invoice when number and date are both there, else empty.
GstInvoices(r, l) ==
    IF r.invoice_number # "" /\ l.invoice_date # ""
    THEN << [ invoice_number |-> r.invoice_number, invoice_date |-> l.invoice_date,
              invoice_value |-> r.item_price * r.item_quantity,
              ewaybill_number |-> "", ewaybill_date |-> "" ] >>
    ELSE <<>>

Optional(s) == IF s # "" THEN Some(s) ELSE None

\* The collect-on-delivery amount of the record.
CodAmount(r, l) == IF r.is_cod THEN l.cod_amount ELSE 0

\* shipment_data as create_shipment builds it; a key the code adds only when its
\* value is there is None when absent.
BuildShipmentData(r, l) ==
    [ billing |-> [paid_by |-> "shipper"],
      slug |-> l.actual_carrier_slug,
      service_type |-> Optional(l.service_type),
      customer_reference |-> r.customer_reference,
      purpose |-> "commercial",
      order_source |-> "mcp_api",
      parcel_contents |-> r.parcel_description,
      is_document |-> r.is_document,
      is_cod |-> r.is_cod,
      collect_on_delivery |-> [amount |-> CodAmount(r, l), currency |-> "INR"],
      charged_weight |-> [unit |-> "kg", value |-> l.chargeable_weight],
      shipment |-> [ ship_from |-> ShipFrom(r, l), ship_to |-> ShipTo(r, l),
                     return_to |-> ReturnTo(r, l),
                     is_reverse |-> FALSE, is_to_pay |-> FALSE,
                     parcels |-> <<ParcelOf(r)>> ],
      gst_invoices |-> GstInvoices(r, l),
      vendor_id |-> Optional(r.vendor_id),
      invoice_number |-> Optional(r.invoice_number),
      invoice_date |-> Optional(l.invoice_date) ]

Assemble ==
    /\ Enter("assemble")
    /\ shipment_data' = Some(BuildShipmentData(req, loc))
    /\ Goto("submit")
    /\ UNCHANGED <<req, net, loc, calls, fn>>

\* await make_create_shipment_request(shipment_data): the record is handed over.
Submit ==
    /\ Enter("submit")
    /\ calls' = Called("submit")
    /\ Goto("await_submit")
    /\ UNCHANGED <<req, net, loc, shipment_data, fn>>

\* What the provider's answer makes create_shipment return: the summary of the
\* created shipment, the failure message when no data came back, or the error
\* message when formatting the answer raised.
SubmitReturn ==
    /\ pc = "await_submit"
    /\ \E answer \in {"data", "none", "unformattable"} :
          result' = CASE answer = "data" ->
                           [outcome |-> "created", msg |-> "summary", items |-> <<>>]
                      [] answer = "none" ->
                           [outcome |-> "failed",
                            msg |-> "Shipment creation failed. Please check all details and try again.",
                            items |-> <<>>]
                      [] answer = "unformattable" ->
                           [outcome |-> "error", msg |-> "Error processing shipment creation",
                            items |-> <<>>]
    /\ pc' = "done"
    /\ UNCHANGED <<req, net, loc, shipment_data, calls, trace, fn>>

Next ==
    \/ ResolveCarrier
    \/ RequiredFields
    \/ PhoneFrom
    \/ PhoneTo
    \/ PincodeFrom
    \/ PincodeTo
    \/ Parcel
    \/ CodStage
    \/ Chargeable
    \/ Service
    \/ InvoiceDate
    \/ LookupFrom
    \/ LookupFromReturn
    \/ LookupTo
    \/ LookupToReturn
    \/ InferStates
    \/ MissingStates
    \/ AddressTypes
    \/ Assemble
    \/ Submit
    \/ SubmitReturn

Spec == Init /\ [][Next]_vars

\* The invocation is not left suspended for ever: a stage that can run does run,
\* and an awaited lookup or submission eventually answers or fails (the lookup
\* carries a timeout).
SpecLive == Spec /\ WF_vars(Next)

\* ------------------------------------------------------------ pure-function specifications
\* compute_chargeable_weight on its own: the weights are those of 0..CwMaxMilli
\* thousandths of a kg and the dimensions 1..CwMaxDim cm, with the worked
\* example (2 kg, 50 x 50 x 50 cm) added.
CwMaxMilli == 30
CwMaxDim == 5

CwWeights == { 10 * g : g \in 0..CwMaxMilli } \cup {2 * Scale, 30 * Scale}
CwDims == (1..CwMaxDim) \cup {50}

InitCW ==
    /\ \E a \in CwWeights, l \in CwDims, w \in CwDims, h \in CwDims :
          fn = [name |-> "compute_chargeable_weight", args |-> <<a, l, w, h>>, out |-> <<>>]
    /\ pc = "pure"
    /\ req = [f \in ArgNames |-> BaseInput[f]]
    /\ net = [from |-> NoAnswer, to |-> NoAnswer]
    /\ loc = EntryLocals(BaseInput)
    /\ result = Pending
    /\ shipment_data = None
    /\ calls = [c \in Counted |-> 0]
    /\ trace = <<>>

\* compute_chargeable_weight is applied to the arguments (a first, then a second time).
ApplyCW ==
    /\ pc = "pure"
    /\ fn.name = "compute_chargeable_weight"
    /\ Len(fn.out) < 2
    /\ fn' = [fn EXCEPT !.out = Append(@, compute_chargeable_weight(
                                             fn.args[1], fn.args[2], fn.args[3], fn.args[4]))]
    /\ UNCHANGED <<pc, req, net, loc, result, shipment_data, calls, trace>>

NextCW == ApplyCW

SpecCW == InitCW /\ [][NextCW]_vars

\* The helpers on their own: one application of a helper to arguments drawn
\* from the sets below.
\* Carrier descriptions: at most SlugMaxWords of SlugWords joined by single
\* spaces, bare and padded with a space on either side, and the examples.
SlugMaxWords == 3

SlugWords == <<"ship", "via", "BlueDart", "Blue", "Dart", "delhivery", "Surface", "DTDC", "amazon">>

RECURSIVE Phrases(_, _)
Phrases(words, k) ==
    IF k = 0 THEN {""}
    ELSE LET P == Phrases(words, k - 1)
         IN  P \cup { IF p = "" THEN words[i] ELSE p \o " " \o words[i] :
                        p \in P, i \in 1..Len(words) }

SlugInputs ==
    LET P == Phrases(SlugWords, SlugMaxWords)
    IN  P \cup { " " \o p \o " " : p \in P }
          \cup {"ship via BlueDart express", "XpressBees", "ekart", "FedEx"}

\* Parcels: weights and dimensions on, and one step to either side of, each bound.
ParcelInputs ==
    LET weights == {0 - Scale, 0, 1, MAX_WEIGHT_KG * Scale, MAX_WEIGHT_KG * Scale + 1}
        dims == {0 - 1, 0, MAX_DIM_CM, MAX_DIM_CM + 1}
    IN  weights \X dims \X dims \X dims

\* Phones: a prefix, a leading digit and up to PhoneMaxTail further digits, written
\* plainly or with a space after the fifth digit, and the examples.
PhoneMaxTail == 11

PhoneInputs ==
    LET prefixes == {"", "+", "+91 ", "91", "091-", "(0) "}
        leads == {"0", "1", "5", "6", "7", "8", "9"}
        tail == "876543210123456789"
        Write(num) == IF Len(num) > 5
                      THEN {num, SubSeq(num, 1, 5) \o " " \o SubSeq(num, 6, Len(num))}
                      ELSE {num}
    IN  UNION { { p \o w : w \in Write(d \o SubSeq(tail, 1, n)) } :
                  p \in prefixes, d \in leads, n \in 0..PhoneMaxTail }
          \cup {"", "+91 98765 43210", "12345", "call me"}

\* Cities: every key of the lexicon and every alias with its canonical name, as
\* written, padded and punctuated, and with spaces and hyphens exchanged; and
\* the examples.
CityInputs ==
    LET names == DOMAIN CITY_STATE_MAP \cup DOMAIN CITY_ALIASES
                   \cup { CITY_ALIASES[a] : a \in DOMAIN CITY_ALIASES }
    IN  names \cup { "  " \o n \o ", " : n \in names }
              \cup { replace(n, " ", "-") : n \in names }
              \cup { replace(n, "-", " ") : n \in names }
              \cup {"", "Bangalore", "bengaluru", "BOMBAY", "  New   Delhi. ", "Navi-Mumbai",
                    "St. Thomas Mount", "Atlantis", "new - delhi", "Pimpri  Chinchwad"}

\* Company and street of a party: absent, without a keyword, with keywords of
\* one kind or of both, in either field and in any case, and with a keyword
\* inside a longer word (lINColn, CORPoration, pLANEt).
AddressInputs ==
    {"", "Asha Traders", "Acme Pvt Ltd", "ACME CORP", "Sharma Home Stores",
     "Villa Technologies", "Lincoln Stores"}
      \X {"", "12 MG Road", "Flat 4, Rose Lane", "HOUSE 9", "5 Corporation Road",
          "Planet Avenue", "Unit 3, Apex Enterprises"}

\* The pipeline's variables while a helper is applied on its own.
PipelineIdle ==
    /\ pc = "pure"
    /\ req = [f \in ArgNames |-> BaseInput[f]]
    /\ net = [from |-> NoAnswer, to |-> NoAnswer]
    /\ loc = EntryLocals(BaseInput)
    /\ result = Pending
    /\ shipment_data = None
    /\ calls = [c \in Counted |-> 0]
    /\ trace = <<>>

Applying(name, args) == fn = [name |-> name, args |-> args, out |-> <<>>]

InitFn ==
    /\ PipelineIdle
    /\ \/ \E d \in SlugInputs : Applying("_get_slug_from_description", <<d>>)
       \/ \E p \in ParcelInputs : Applying("validate_parcel_dimensions", p)
       \/ \E p \in PhoneInputs : Applying("normalize_phone", <<p>>)
       \/ \E c \in CityInputs : Applying("infer_state_from_city", <<c>>)
       \/ \E a \in AddressInputs : Applying("address_type", a)

\* The helper named in fn is applied to fn's arguments; value is its result.
Applied(name, value) ==
    /\ pc = "pure"
    /\ fn.name = name
    /\ fn.out = <<>>
    /\ fn' = [fn EXCEPT !.out = <<value>>]
    /\ UNCHANGED <<pc, req, net, loc, result, shipment_data, calls, trace>>

ApplySlug == Applied("_get_slug_from_description", get_slug_from_description(fn.args[1]))

ApplyParcel ==
    Applied("validate_parcel_dimensions",
            validate_parcel_dimensions(fn.args[1], fn.args[2], fn.args[3], fn.args[4]))

ApplyPhone == Applied("normalize_phone", normalize_phone(fn.args[1]))

ApplyCity == Applied("infer_state_from_city", infer_state_from_city(fn.args[1]))

\* The address-type step of create_shipment for one party.
ApplyAddress == Applied("address_type", AddressType(fn.args[1], fn.args[2]))

NextFn ==
    \/ ApplySlug
    \/ ApplyParcel
    \/ ApplyPhone
    \/ ApplyCity
    \/ ApplyAddress

SpecFn == InitFn /\ [][NextFn]_vars

\* fn holds the result of applying the helper called name.
Returned(name) == pc = "pure" /\ fn.name = name /\ fn.out # <<>>

\* ------------------------------------------------------------ two invocations
\* Two create_shipment coroutines on one event loop.  The variables hold the
\* frame of the coroutine that is running; fn holds the frame of the other one,
\* suspended.  The event loop changes coroutine only when the running one is at
\* an await or has returned.
Running ==
    [ pc |-> pc, req |-> req, net |-> net, loc |-> loc, result |-> result,
      shipment_data |-> shipment_data, calls |-> calls, trace |-> trace ]

\* The frame of an invocation on entry, for input i.
Frame(i) ==
    [ pc |-> "resolve_carrier", req |-> [f \in ArgNames |-> i[f]],
      net |-> [from |-> i.net_from, to |-> i.net_to], loc |-> EntryLocals(i),
      result |-> Pending, shipment_data |-> None,
      calls |-> [c \in Counted |-> 0], trace |-> <<>> ]

\* The frame f becomes the running one.
Resume(f) ==
    /\ pc' = f.pc /\ req' = f.req /\ net' = f.net /\ loc' = f.loc
    /\ result' = f.result /\ shipment_data' = f.shipment_data
    /\ calls' = f.calls /\ trace' = f.trace

\* The requests the two invocations are made with: the valid request, and its
\* deviations in city, state and lookup answer.
ConcInputs ==
    LET geo == {"ship_from_city", "ship_from_state", "ship_to_city", "ship_to_state",
                "net_from", "net_to"}
    IN  {BaseInput} \cup { Override(BaseInput, Deviations[i]) :
                             i \in { j \in 1..Len(Deviations) : DOMAIN Deviations[j] \subseteq geo } }

InitConc ==
    \E a \in ConcInputs, b \in ConcInputs :
        /\ pc = Frame(a).pc /\ req = Frame(a).req /\ net = Frame(a).net
        /\ loc = Frame(a).loc /\ result = Frame(a).result
        /\ shipment_data = Frame(a).shipment_data
        /\ calls = Frame(a).calls /\ trace = Frame(a).trace
        /\ fn = Frame(b)

\* (mutant) the locals are one set shared by both invocations, as module-level
\* variables would be: a change of coroutine leaves them in place.
Switch_SharedLocals ==
    /\ pc \in {"await_lookup_from", "await_lookup_to", "await_submit", "done"}
    /\ fn.pc # "done"
    /\ Resume([fn EXCEPT !.loc = loc])
    /\ fn' = Running

\* The running coroutine is suspended at its await (or has returned) and the
\* other one runs on.
Switch ==
    /\ pc \in {"await_lookup_from", "await_lookup_to", "await_submit", "done"}
    /\ fn.pc # "done"
    /\ Resume(fn)
    /\ fn' = Running

NextConc ==
    \/ Next
    \/ Switch

SpecConc == InitConc /\ [][NextConc]_vars

\* ------------------------------------------------------------ the outcome as a function
Assembled == shipment_data # None
Record == Val(shipment_data)
PositiveDims(r) == r.parcel_length_cm > 0 /\ r.parcel_width_cm > 0 /\ r.parcel_height_cm > 0

\* The stages that can reject, in the order create_shipment runs them.
RejectingStages ==
    <<"required_fields", "phone_from", "phone_to", "pincode_from", "pincode_to",
      "parcel", "cod", "invoice_date", "missing_states">>

\* Every stage, in the order an accepted request runs them.
AllStages ==
    <<"resolve_carrier", "required_fields", "phone_from", "phone_to", "pincode_from",
      "pincode_to", "parcel", "cod", "chargeable", "service", "invoice_date",
      "lookup_from", "lookup_to", "infer_states", "missing_states", "address_types",
      "assemble", "submit">>

\* The city and state locals once both lookups and local inference have run,
\* for arguments r and lookup answers n.
Resolved(r, n) ==
    LET l0 == EntryLocals(r)
        l1 == IF NeedsLookup(r, l0, "ship_from_pincode", "ship_from_city", "ship_from_state")
              THEN Fill(l0, lookup_pincode(r.ship_from_pincode, n.from),
                        "ship_from_city", "ship_from_state")
              ELSE l0
        l2 == IF NeedsLookup(r, l1, "ship_to_pincode", "ship_to_city", "ship_to_state")
              THEN Fill(l1, lookup_pincode(r.ship_to_pincode, n.to),
                        "ship_to_city", "ship_to_state")
              ELSE l1
    IN  InferParty(InferParty(l2, "ship_from_city", "ship_from_state", "sender"),
                   "ship_to_city", "ship_to_state", "consignee")

PhoneRejected(phone) == Len(DigitsOf(phone)) < 10 /\ normalize_phone(phone) = None

\* What a stage, taken alone, answers to arguments r with lookup answers n:
\* Some(rejection) when it fails, None when it passes.
StageRejection(stage, r, n) ==
    CASE stage = "required_fields" ->
           IF Missing(r) # <<>>
           THEN Some(Rejection("Missing required fields", Missing(r))) ELSE None
      [] stage = "phone_from" ->
           IF PhoneRejected(r.ship_from_phone)
           THEN Some(Rejection("Invalid shipper phone number", <<r.ship_from_phone>>)) ELSE None
      [] stage = "phone_to" ->
           IF PhoneRejected(r.ship_to_phone)
           THEN Some(Rejection("Invalid consignee phone number", <<r.ship_to_phone>>)) ELSE None
      [] stage = "pincode_from" ->
           IF ~PincodeAccepted(r.ship_from_pincode)
           THEN Some(Rejection("Invalid shipper pincode", <<r.ship_from_pincode>>)) ELSE None
      [] stage = "pincode_to" ->
           IF ~PincodeAccepted(r.ship_to_pincode)
           THEN Some(Rejection("Invalid consignee pincode", <<r.ship_to_pincode>>)) ELSE None
      [] stage = "parcel" ->
           IF ParcelError(r) # None THEN Some(Rejection(Val(ParcelError(r)), <<>>)) ELSE None
      [] stage = "cod" ->
           IF r.is_cod /\ r.cod_amount <= 0
           THEN Some(Rejection("COD amount must be greater than 0 when COD is enabled.", <<>>))
           ELSE None
      [] stage = "invoice_date" ->
           IF r.invoice_date # "" /\ normalize_date(r.invoice_date) = None
           THEN Some(Rejection("Invalid invoice date format", <<r.invoice_date>>)) ELSE None
      [] stage = "missing_states" ->
           LET missing == Resolved(r, n).missing_states
           IN  IF missing = <<>> THEN None
               ELSE IF Len(missing) = 1
               THEN Some(Rejection("Please provide the state for the", missing))
               ELSE Some(Rejection("Please provide the states for", missing))

FailingStages(r, n) ==
    { i \in 1..Len(RejectingStages) : StageRejection(RejectingStages[i], r, n) # None }

\* The earliest failing stage in the fixed order (0 when every stage passes).
FirstFailing(r, n) ==
    IF FailingStages(r, n) = {} THEN 0
    ELSE CHOOSE i \in FailingStages(r, n) : \A j \in FailingStages(r, n) : i <= j

IsPrefix(s, t) == Len(s) <= Len(t) /\ s = SubSeq(t, 1, Len(s))

\* The locals an invocation made alone with arguments r and lookup answers n
\* hands to the assembly, when no stage rejects.
AloneLocals(r, n) ==
    LET resolved == Resolved(r, n)
        company_or_street(c, s) == IF c = "" /\ s = "" THEN "residential"
                                   ELSE infer_address_type(c, s)
    IN  [ resolved EXCEPT
            !.actual_carrier_slug = get_slug_from_description(r.carrier_description),
            !.ship_from_phone = Last10(DigitsOf(r.ship_from_phone)),
            !.ship_to_phone = Last10(DigitsOf(r.ship_to_phone)),
            !.cod_amount = IF ~r.is_cod /\ r.cod_amount > 0 THEN 0 ELSE r.cod_amount,
            !.chargeable_weight =
                IF PositiveDims(r)
                THEN compute_chargeable_weight(r.parcel_weight_kg, r.parcel_length_cm,
                                               r.parcel_width_cm, r.parcel_height_cm)
                ELSE r.parcel_weight_kg,
            !.service_type =
                IF r.service_type # "" THEN r.service_type
                ELSE infer_service_type(r.parcel_weight_kg,
                                        get_slug_from_description(r.carrier_description)),
            !.invoice_date = IF r.invoice_date = "" THEN ""
                             ELSE Val(normalize_date(r.invoice_date)),
            !.ship_from_type = company_or_street(r.ship_from_company, r.ship_from_street1),
            !.ship_to_type = company_or_street(r.ship_to_company, r.ship_to_street1) ]

\* ------------------------------------------------------------ claims

\* C1: create_shipment rejects, before any pincode lookup or submission, every
\* request whose sender or consignee pincode is not exactly 6 digits with a
\* first digit 1-9; so both postal codes of every assembled record have that
\* shape.  (Fails on the code: create_shipment tests len == 6 and isdigit()
\* and never calls validate_pincode, so "012345" is accepted.)
CexC1_PincodeShape ==
    ~(validate_pincode(req.ship_from_pincode) /\ validate_pincode(req.ship_to_pincode))
        => /\ ~Assembled
           /\ calls["lookup_from"] = 0 /\ calls["lookup_to"] = 0 /\ calls["submit"] = 0

\* C2: in every assembled record the actual weight is > 0 and <= 300 kg and
\* each dimension is >= 0 and <= 300 cm, whether or not dimensions were given.
\* (Fails on the code: with no positive dimension only weight > 300 is tested.)
CexC2_ParcelBounds ==
    Assembled =>
        LET p == Record.shipment.parcels[1]
        IN  /\ p.weight.value > 0 /\ p.weight.value <= MAX_WEIGHT_KG * Scale
            /\ \A d \in {p.dimension.length, p.dimension.width, p.dimension.height} :
                  d >= 0 /\ d <= MAX_DIM_CM

\* A phone of exactly 10 digits beginning with 6, 7, 8 or 9.
MobileShape(phone) == Len(phone) = 10 /\ isdigit(phone) /\ CharIn(Ch(phone, 1), "6789")

\* C3: in every assembled record the sender phone and the consignee phone are
\* exactly 10 digits beginning with 6-9.  (Fails on the code: a raw phone with
\* 10 or more digits is cut to its last 10 with no leading-digit check.)
CexC3_PhoneShape ==
    Assembled => /\ MobileShape(Record.shipment.ship_from.phone)
                 /\ MobileShape(Record.shipment.ship_to.phone)

\* C4: no record is assembled with an empty sender or consignee state: a
\* party whose state neither the caller, the lookup nor local inference gives
\* makes create_shipment reject.  (Fails on the code: inference and the
\* missing-state list are skipped for a party whose city is empty too.)
CexC4_StatePresent ==
    Assembled => /\ Record.shipment.ship_from.state # ""
                 /\ Record.shipment.ship_to.state # ""

\* C5: the submission collaborator is invoked at most once per call and only
\* after every stage has run, in order, without rejecting; once a stage has
\* rejected, no record is built and submission is not invoked.
ThmC5_SubmitOnceAfterAllStages ==
    /\ calls["submit"] <= 1
    /\ calls["submit"] = 1 =>
          /\ Assembled
          /\ IsPrefix(AllStages, trace)
          /\ FirstFailing(req, net) = 0
    /\ Assembled => IsPrefix(SubSeq(AllStages, 1, Len(AllStages) - 1), trace)
    /\ result.outcome = "rejected" => ~Assembled /\ calls["submit"] = 0

WitC5_Submitted == pc = "done" /\ calls["submit"] = 1 /\ result.outcome = "created"

\* C6: the rejection create_shipment returns is that of the earliest failing
\* stage in the order required fields, sender phone, consignee phone, sender
\* pincode, consignee pincode, parcel bounds, COD, invoice date, missing state;
\* the outcome is a function of the arguments and the lookup answers, so the
\* same input always yields the same outcome and the same rejection.
ThmC6_EarliestFailingStage ==
    /\ IsPrefix(trace, AllStages)
    /\ pc = "done" =>
          LET i == FirstFailing(req, net)
          IN  IF i = 0
              THEN Assembled /\ result.outcome \in {"created", "failed", "error"}
              ELSE /\ result = Val(StageRejection(RejectingStages[i], req, net))
                   /\ trace[Len(trace)] = RejectingStages[i]
                   /\ ~Assembled
    /\ result.outcome = "rejected" => pc = "done"

WitC6_SeveralStagesFail ==
    /\ pc = "done"
    /\ Cardinality(FailingStages(req, net)) >= 2
    /\ result.outcome = "rejected"
    /\ trace[Len(trace)] = "phone_to"

\* C7: COD requested with an amount <= 0 is rejected; without COD the record's
\* collect-on-delivery amount is 0 whatever amount was passed; so in every
\* assembled record the amount is > 0 exactly when the COD flag is true.
ThmC7_CodConsistent ==
    /\ req.is_cod /\ req.cod_amount <= 0 =>
          /\ ~Assembled
          /\ pc = "done" => result.outcome = "rejected"
    /\ Assembled =>
          /\ Record.is_cod = req.is_cod
          /\ Record.collect_on_delivery.amount > 0 <=> Record.is_cod
          /\ ~req.is_cod => Record.collect_on_delivery.amount = 0
          /\ req.is_cod => Record.collect_on_delivery.amount = req.cod_amount

WitC7_StrayAmountZeroed ==
    /\ Assembled
    /\ ~req.is_cod /\ req.cod_amount = 500
    /\ Record.collect_on_delivery.amount = 0

\* C8: compute_chargeable_weight gives the same value each time it is applied
\* to the same arguments, and a value >= the actual weight passed in, for an
\* actual weight of any precision and positive dimensions.  (Fails on the
\* code: rounding to 2 decimals takes 0.004 kg, or 1.004 kg, below itself.)
CexC8_AtLeastActual ==
    fn.name = "compute_chargeable_weight" =>
        /\ \A i \in 1..Len(fn.out) : fn.out[i] >= fn.args[1]
        /\ \A i, j \in 1..Len(fn.out) : fn.out[i] = fn.out[j]

Abs(x) == IF x >= 0 THEN x ELSE 0 - x

\* C9 (amended): with positive dimensions the chargeable weight is
\* max(actual, L*W*H / divisor) rounded to 2 decimals: a whole number of
\* hundredths of a kg, at most half a hundredth away from that maximum; for
\* 2 kg and 50 x 50 x 50 cm the volumetric weight is 25 kg and the chargeable
\* weight 25.0.
ThmC9_MaxRounded ==
    fn.name = "compute_chargeable_weight" =>
        \A i \in 1..Len(fn.out) :
            LET a == fn.args[1]
                volume == fn.args[2] * fn.args[3] * fn.args[4]
                \* max(actual, volumetric), both multiplied by the divisor
                m == Max(a * VOLUMETRIC_DIVISOR, volume * Scale)
            IN  /\ fn.out[i] % Cent = 0
                /\ 2 * Abs(fn.out[i] * VOLUMETRIC_DIVISOR - m) <= Cent * VOLUMETRIC_DIVISOR
                /\ fn.args = <<2 * Scale, 50, 50, 50>> =>
                      /\ volume * Scale = 25 * Scale * VOLUMETRIC_DIVISOR
                      /\ fn.out[i] = 25 * Scale

WitC9_WorkedExample == fn.args = <<2 * Scale, 50, 50, 50>> /\ Len(fn.out) = 1

\* C9 as stated: for 2 kg and 50 x 50 x 50 cm the volumetric weight is 50 kg
\* and the chargeable weight 50.0.
CexC9_FiftyKg ==
    fn.args = <<2 * Scale, 50, 50, 50>> =>
        \A i \in 1..Len(fn.out) : fn.out[i] = 50 * Scale

\* C10: compute_chargeable_weight is invoked only when length, width and
\* height are all > 0; otherwise the record's chargeable weight is the actual
\* weight unchanged.
ThmC10_NoPartialVolumetric ==
    /\ calls["compute_chargeable_weight"] > 0 => PositiveDims(req)
    /\ Assembled /\ ~PositiveDims(req) =>
          /\ Record.charged_weight.value = req.parcel_weight_kg
          /\ calls["compute_chargeable_weight"] = 0
    /\ Assembled /\ PositiveDims(req) => calls["compute_chargeable_weight"] = 1

WitC10_PartialDimensions ==
    /\ Assembled
    /\ req.parcel_length_cm > 0 /\ req.parcel_width_cm = 0
    /\ req.parcel_weight_kg % Cent # 0
    /\ Record.charged_weight.value = req.parcel_weight_kg

\* C11: a non-empty caller-supplied service type is carried unchanged into the
\* assembled record and inference is not invoked; when none is supplied the
\* record's service type follows from the actual weight and the resolved slug:
\* 'delhivery' gives 'delhivery-surface' above 10 kg and 'delhivery' up to and
\* including 10 kg; any other slug gives 'surface' above 30 kg, else 'express'.
ThmC11_ServiceType ==
    Assembled =>
        IF req.service_type # ""
        THEN /\ Record.service_type = Some(req.service_type)
             /\ calls["infer_service_type"] = 0
        ELSE /\ calls["infer_service_type"] = 1
             /\ Record.service_type =
                    Some(IF Record.slug = "delhivery"
                         THEN (IF req.parcel_weight_kg > 10 * Scale
                               THEN "delhivery-surface" ELSE "delhivery")
                         ELSE (IF req.parcel_weight_kg > 30 * Scale
                               THEN "surface" ELSE "express"))

\* A delhivery parcel of exactly 10 kg with no service type given is assembled as
\* 'delhivery'.
WitC11_TenKgDelhivery ==
    /\ Assembled
    /\ req.service_type = ""
    /\ Record.slug = "delhivery"
    /\ req.parcel_weight_kg = 10 * Scale
    /\ Record.service_type = Some("delhivery")

\* C12: the carrier resolver always returns a slug of the lexicon or 'auto':
\* the slug of an exact match of the lowercased, trimmed input; else the slug
\* of the first lexicon key, in declaration order, that is a substring of it;
\* else 'auto', also for the empty input.  'ship via BlueDart express' resolves
\* to 'bluedart'.
ThmC12_CarrierResolver ==
    Returned("_get_slug_from_description") =>
        LET description == fn.args[1]
            slug == fn.out[1]
            text == strip(lower(description))
            Keys == 1..Len(CARRIER_SLUG_MAP)
            exact == { i \in Keys : CARRIER_SLUG_MAP[i][1] = text }
            within == { i \in Keys : Contains(text, CARRIER_SLUG_MAP[i][1]) }
        IN  /\ slug \in { CARRIER_SLUG_MAP[i][2] : i \in Keys } \cup {"auto"}
            /\ description = "" => slug = "auto"
            /\ \A i \in exact : slug = CARRIER_SLUG_MAP[i][2]
            /\ exact = {} =>
                  /\ \A i \in within :
                        (\A j \in within : i <= j) => slug = CARRIER_SLUG_MAP[i][2]
                  /\ within = {} => slug = "auto"
            /\ description = "ship via BlueDart express" => slug = "bluedart"

\* Two keys ('delhivery', 'delhivery surface') occur in the input and none
\* matches it exactly: the first-declared one decides.
WitC12_FirstDeclaredWins ==
    /\ Returned("_get_slug_from_description")
    /\ fn.args[1] = "via delhivery Surface"
    /\ fn.out = <<"delhivery">>

\* C13: a pincode lookup that fails (no data, or an exception) never makes
\* create_shipment reject or raise: the step that receives the failure leaves
\* the locals and the result alone and hands over to the next stage, and local
\* inference then runs.  With sender city 'Mumbai', no sender state and a
\* failing lookup the sender state becomes 'maharashtra', the sender is not
\* reported as missing, and the assembled record carries that state.
ThmC13_LookupFailureAbsorbed ==
    /\ [][ /\ (pc = "await_lookup_from" /\ net.from.kind # "info") =>
                (loc' = loc /\ result' = Pending /\ pc' = "lookup_to")
           /\ (pc = "await_lookup_to" /\ net.to.kind # "info") =>
                (loc' = loc /\ result' = Pending /\ pc' = "infer_states") ]_vars
    /\ [] ( ( /\ req.ship_from_city = "Mumbai" /\ req.ship_from_state = ""
              /\ net.from.kind # "info"
              /\ \E i \in 1..Len(trace) : trace[i] = "infer_states" ) =>
            ( /\ calls["lookup_from"] = 1
              /\ calls["infer_state_from"] = 1
              /\ loc.ship_from_state = "maharashtra"
              /\ \A i \in 1..Len(loc.missing_states) :
                    ~startswith(loc.missing_states[i], "sender")
              /\ Assembled => Record.shipment.ship_from.state = "maharashtra" ) )

\* The sender's lookup raised, the city was 'Mumbai', and the record was
\* assembled and handed over with the inferred state.
WitC13_RaisedLookupInferred ==
    /\ Assembled
    /\ req.ship_from_city = "Mumbai" /\ req.ship_from_state = ""
    /\ net.from.kind = "raise"
    /\ calls["lookup_from"] = 1
    /\ Record.shipment.ship_from.state = "maharashtra"
    /\ result.outcome = "created"

\* C14: for a party that has a pincode and neither city nor state, the pincode
\* lookup is invoked for that party once its lookup stage runs; when the lookup
\* returns a city and a state, the assembled record carries both for that party
\* and local city-to-state inference is not invoked for it.
ThmC14_LookupPopulates ==
    LET Holds(pincode, city, state, stage, infer, party, block) ==
            (req[pincode] # "" /\ req[city] = "" /\ req[state] = "") =>
                /\ (\E i \in 1..Len(trace) : trace[i] = stage) => calls[stage] = 1
                /\ ( /\ Assembled
                     /\ net[party].kind = "info"
                     /\ net[party].city # "" /\ net[party].state # "" ) =>
                       /\ Record.shipment[block].city = net[party].city
                       /\ Record.shipment[block].state = net[party].state
                       /\ calls[infer] = 0
    IN  /\ Holds("ship_from_pincode", "ship_from_city", "ship_from_state",
                 "lookup_from", "infer_state_from", "from", "ship_from")
        /\ Holds("ship_to_pincode", "ship_to_city", "ship_to_state",
                 "lookup_to", "infer_state_to", "to", "ship_to")

\* The consignee came with pincode 600001 and no city or state; the lookup
\* answered Chennai, Tamil Nadu, and the record carries both without inference.
WitC14_ConsigneeFromLookup ==
    /\ Assembled
    /\ req.ship_to_pincode = "600001" /\ req.ship_to_city = "" /\ req.ship_to_state = ""
    /\ calls["lookup_to"] = 1
    /\ Record.shipment.ship_to.city = "Chennai"
    /\ Record.shipment.ship_to.state = "Tamil Nadu"
    /\ calls["infer_state_to"] = 0

\* C15: only the required-field stage and the state-resolution stage report
\* several problems in one rejection.  The required-field rejection is given
\* exactly when some required field is missing and lists every missing one
\* among sender name/pincode/phone, consignee name/pincode/phone and parcel
\* weight, a weight of 0 counting as missing.  The missing-state rejection
\* lists every party whose state local inference could not supply (a city,
\* and no state once lookup and inference have run), sender before
\* consignee.  Every other rejection reports one violation.
ThmC15_AccumulatingStages ==
    LET Absent(k) == IF k = "parcel_weight_kg" THEN req[k] = 0 ELSE req[k] = ""
        Unresolved(role, city, state) ==
            IF loc[city] # "" /\ loc[state] = ""
            THEN <<role \o " (city: " \o loc[city] \o ")">> ELSE <<>>
        parties == Unresolved("sender", "ship_from_city", "ship_from_state")
                     \o Unresolved("consignee", "ship_to_city", "ship_to_state")
    IN  pc = "done" =>
          /\ (\E i \in 1..Len(REQUIRED_FIELDS) : Absent(REQUIRED_FIELDS[i])) <=>
                (result.outcome = "rejected" /\ result.msg = "Missing required fields")
          /\ (result.outcome = "rejected" /\ result.msg = "Missing required fields") =>
                result.items = SelectSeq(REQUIRED_FIELDS, Absent)
          /\ (\E i \in 1..Len(trace) : trace[i] = "missing_states") =>
                IF parties = <<>> THEN result.outcome # "rejected"
                ELSE /\ result.outcome = "rejected"
                     /\ result.items = parties
                     /\ result.msg = (IF Len(parties) = 1
                                      THEN "Please provide the state for the"
                                      ELSE "Please provide the states for")
          /\ ( /\ result.outcome = "rejected"
               /\ result.msg # "Missing required fields"
               /\ ~(\E i \in 1..Len(trace) : trace[i] = "missing_states") ) =>
                Len(result.items) <= 1

\* Neither party's state could be inferred from its city: one rejection names
\* both, the sender first.
WitC15_BothPartiesListed ==
    /\ pc = "done"
    /\ result.outcome = "rejected"
    /\ result.msg = "Please provide the states for"
    /\ result.items = <<"sender (city: Atlantis)", "consignee (city: Atlantis)">>

\* C16: validate_parcel_dimensions checks, in this order, weight <= 0, weight
\* above the maximum, then length, width and height (each: negative, then
\* above the maximum), and returns the reason of the first violation only;
\* every weight <= 0 is rejected for its weight whatever the dimensions are,
\* and None is returned only when all bounds hold.
ThmC16_ParcelCheckOrder ==
    Returned("validate_parcel_dimensions") =>
        LET weight == fn.args[1]
            length == fn.args[2]
            width == fn.args[3]
            height == fn.args[4]
            checks ==
                << <<weight <= 0, "Parcel weight must be greater than 0.">>,
                   <<weight > MAX_WEIGHT_KG * Scale, "Parcel weight exceeds max allowed.">>,
                   <<length < 0, "Length cannot be negative.">>,
                   <<length > MAX_DIM_CM, "Length exceeds max allowed.">>,
                   <<width < 0, "Width cannot be negative.">>,
                   <<width > MAX_DIM_CM, "Width exceeds max allowed.">>,
                   <<height < 0, "Height cannot be negative.">>,
                   <<height > MAX_DIM_CM, "Height exceeds max allowed.">> >>
            violated == { i \in 1..Len(checks) : checks[i][1] }
        IN  /\ \A i \in violated :
                  (\A j \in violated : i <= j) => fn.out[1] = Some(checks[i][2])
            /\ violated = {} <=> fn.out[1] = None
            /\ weight <= 0 => fn.out[1] = Some("Parcel weight must be greater than 0.")

\* A weight of 0 with a negative length and an oversized height: the weight is
\* what is reported.
WitC16_WeightBeforeDimensions ==
    /\ Returned("validate_parcel_dimensions")
    /\ fn.args = <<0, 0 - 1, 0, MAX_DIM_CM + 1>>
    /\ fn.out = <<Some("Parcel weight must be greater than 0.")>>

\* C17: the strict phone normalizer strips every non-digit character, drops a
\* leading '91' only when the digit string has exactly 12 digits, and returns
\* what remains only if it is exactly 10 digits starting with 6, 7, 8 or 9,
\* rejecting otherwise; so every result is 10 digits beginning with 6-9.
\* '+91 98765 43210' gives '9876543210'; '12345' is rejected.
ThmC17_StrictNormalizer ==
    Returned("normalize_phone") =>
        LET phone == fn.args[1]
            digits == DigitsOf(phone)
            remaining == IF Len(digits) = 12 /\ SubSeq(digits, 1, 2) = "91"
                         THEN SubSeq(digits, 3, 12) ELSE digits
            accepted == Len(remaining) = 10 /\ SubSeq(remaining, 1, 1) \in {"6", "7", "8", "9"}
        IN  /\ fn.out[1] = (IF accepted THEN Some(remaining) ELSE None)
            /\ fn.out[1] # None => MobileShape(Val(fn.out[1]))
            /\ phone = "+91 98765 43210" => fn.out[1] = Some("9876543210")
            /\ phone = "12345" => fn.out[1] = None

\* Ten digits that begin with 91: nothing is dropped and the number is returned.
WitC17_TenDigitsKeep91 ==
    /\ Returned("normalize_phone")
    /\ fn.args[1] = "9168765 432"
    /\ fn.out = <<Some("9168765432")>>

\* C18: state inference normalizes the city (trim, lowercase, strip commas and
\* periods, collapse whitespace), applies the alias table, then tries the
\* lexicon directly, with spaces replaced by hyphens, and with hyphens
\* replaced by spaces, returning the first hit and None if all fail; an alias
\* and its canonical city yield the same result ('Bangalore' and 'bengaluru'
\* both give 'karnataka'), and every key of the lexicon resolves to a state.
ThmC18_StateInference ==
    Returned("infer_state_from_city") =>
        LET city == fn.args[1]
            state == fn.out[1]
            trimmed == JoinSplit(replace(replace(lower(strip(city)), ",", ""), ".", ""))
            norm == IF trimmed \in DOMAIN CITY_ALIASES THEN CITY_ALIASES[trimmed] ELSE trimmed
            tries == <<norm, replace(norm, " ", "-"), replace(norm, "-", " ")>>
            hits == { i \in 1..3 : tries[i] \in DOMAIN CITY_STATE_MAP }
        IN  /\ \A i \in hits :
                  (\A j \in hits : i <= j) => state = Some(CITY_STATE_MAP[tries[i]])
            /\ hits = {} => state = None
            /\ city \in DOMAIN CITY_ALIASES =>
                  state = infer_state_from_city(CITY_ALIASES[city])
            /\ city \in DOMAIN CITY_STATE_MAP => (state # None /\ Val(state) # "")
            /\ city \in {"Bangalore", "bengaluru"} => state = Some("karnataka")

\* An alias that is no key of the lexicon resolves through its canonical name.
WitC18_AliasResolved ==
    /\ Returned("infer_state_from_city")
    /\ fn.args[1] = "  poona, "
    /\ "poona" \notin DOMAIN CITY_STATE_MAP
    /\ fn.out = <<Some("maharashtra")>>

\* C19: a supplied invoice date is tried against day-month-year with hyphens,
\* day/month/year, year/month/day and day abbreviated-month year, in that
\* order, and the first successful parse is emitted in YYYY-MM-DD form
\* ('31/01/2025' becomes '2025-01-31'); a date matching none of them, such as
\* '31-13-2025', makes create_shipment reject naming the date; an absent
\* invoice date never causes a rejection.  (Fails on the code: a year below
\* 1000 is emitted without its leading zeros, '31-01-0999' as '999-01-31'.)
CexC19_InvoiceDate ==
    LET date == req.invoice_date
        Parse(i) == strptime(date, DATE_FORMATS[i].sep, DATE_FORMATS[i].kinds)
        parses == { i \in 1..Len(DATE_FORMATS) : Parse(i) # None }
        Pad4(y) == SubSeq("000", 1, 4 - Len(ToString(y))) \o ToString(y)
        Iso(t) == Pad4(t.y) \o "-" \o Pad2(t.m) \o "-" \o Pad2(t.d)
        rejected == result.outcome = "rejected" /\ result.msg = "Invalid invoice date format"
    IN  (\E k \in 1..Len(trace) : trace[k] = "invoice_date") =>
          /\ date = "" => (~rejected /\ loc.invoice_date = "")
          /\ (date # "" /\ parses = {}) => (rejected /\ result.items = <<date>>)
          /\ \A i \in parses :
                (\A j \in parses : i <= j) =>
                    /\ ~rejected
                    /\ loc.invoice_date = Iso(Val(Parse(i)))
                    /\ Len(loc.invoice_date) = 10
                    /\ Assembled => Record.invoice_date = Some(Iso(Val(Parse(i))))
          /\ date = "31/01/2025" => loc.invoice_date = "2025-01-31"
          /\ date = "31-13-2025" => rejected

\* C20: in the phone stage a raw phone with at least 10 digits is replaced by
\* its last 10 digits, with no leading-digit check and without invoking the
\* strict normalizer; the strict normalizer is reached only for a phone with
\* fewer than 10 digits, and then rejects; so a phone is accepted exactly when
\* it contains at least 10 digits, and rejected naming the role otherwise.
ThmC20_LenientPhoneStage ==
    LET Ran(stage) == \E k \in 1..Len(trace) : trace[k] = stage
        RejectedAs(role, field) ==
            /\ result.outcome = "rejected"
            /\ result.msg = "Invalid " \o role \o " phone number"
            /\ result.items = <<req[field]>>
        Holds(stage, field, role) ==
            Ran(stage) =>
                LET digits == DigitsOf(req[field])
                IN  IF Len(digits) >= 10
                    THEN /\ loc[field] = SubSeq(digits, Len(digits) - 9, Len(digits))
                         /\ ~RejectedAs(role, field)
                    ELSE /\ RejectedAs(role, field)
                         /\ calls["normalize_phone"] = 1
                         /\ normalize_phone(req[field]) = None
        rejections == { f \in {"ship_from_phone", "ship_to_phone"} :
                          RejectedAs(IF f = "ship_from_phone" THEN "shipper" ELSE "consignee", f) }
    IN  /\ Holds("phone_from", "ship_from_phone", "shipper")
        /\ Holds("phone_to", "ship_to_phone", "consignee")
        /\ calls["normalize_phone"] = Cardinality(rejections)
        /\ Assembled =>
              /\ Record.shipment.ship_from.phone = loc.ship_from_phone
              /\ Record.shipment.ship_to.phone = loc.ship_to_phone

\* A consignee phone of ten fives is accepted as it is, the strict normalizer
\* never invoked, and reaches the record.
WitC20_TenFivesAccepted ==
    /\ Assembled
    /\ req.ship_to_phone = "5555555555"
    /\ Record.shipment.ship_to.phone = "5555555555"
    /\ calls["normalize_phone"] = 0

\* C21: state inference starts only after both pincode lookup stages have run
\* and every lookup they issued has answered or failed; and the locals
\* inference starts from are the same had the consignee's answer been applied
\* before the sender's, so the outcome does not depend on the order in which
\* the two lookups complete.
ThmC21_InferenceAfterBothLookups ==
    LET Position(stage) == { k \in 1..Len(trace) : trace[k] = stage }
        entry == [loc EXCEPT !.ship_from_city = req.ship_from_city,
                             !.ship_from_state = req.ship_from_state,
                             !.ship_to_city = req.ship_to_city,
                             !.ship_to_state = req.ship_to_state]
        Answered(l, pincode, city, state, party) ==
            IF req[pincode] # "" /\ (l[city] = "" \/ l[state] = "")
            THEN Fill(l, lookup_pincode(req[pincode], net[party]), city, state)
            ELSE l
        consignee_first ==
            Answered(Answered(entry, "ship_to_pincode", "ship_to_city", "ship_to_state", "to"),
                     "ship_from_pincode", "ship_from_city", "ship_from_state", "from")
    IN  /\ \A k \in Position("infer_states") :
              /\ \E i \in Position("lookup_from") : i < k
              /\ \E j \in Position("lookup_to") : j < k
        /\ pc \in {"await_lookup_from", "await_lookup_to"} => Position("infer_states") = {}
        /\ pc = "infer_states" =>
              /\ Position("lookup_from") # {} /\ Position("lookup_to") # {}
              /\ loc = consignee_first

\* Both lookups were issued and answered, each with data, and inference has
\* then started.
WitC21_BothLookupsThenInference ==
    /\ calls["lookup_from"] = 1 /\ calls["lookup_to"] = 1
    /\ net.from.kind = "info" /\ net.to.kind = "info"
    /\ \E k \in 1..Len(trace) : trace[k] = "infer_states"

\* C22: concurrent create_shipment invocations share no mutable state: under
\* any interleaving at their await points, each invocation that has ended has
\* the outcome it has when made alone with the same arguments and lookup
\* answers (the rejection of its earliest failing stage, or the record built
\* from its own arguments and lookup answers alone).
ThmC22_InvocationsIsolated ==
    LET Alone(f) ==
            f.pc \in {"await_submit", "done"} =>
                IF FirstFailing(f.req, f.net) # 0
                THEN /\ f.result =
                          Val(StageRejection(RejectingStages[FirstFailing(f.req, f.net)],
                                             f.req, f.net))
                     /\ f.shipment_data = None
                     /\ f.calls["submit"] = 0
                ELSE /\ f.result.outcome # "rejected"
                     /\ f.loc = AloneLocals(f.req, f.net)
                     /\ f.shipment_data =
                          Some(BuildShipmentData(f.req, AloneLocals(f.req, f.net)))
                     /\ f.calls["submit"] = 1
    IN  Alone(Running) /\ Alone(fn)

\* Both invocations looked a pincode up, the first was suspended at its lookup
\* while the second ran, and both ended: one rejected for a state nobody could
\* supply, the other with a record carrying the state its own lookup returned.
WitC22_InterleavedAtLookups ==
    /\ pc = "done" /\ fn.pc = "done"
    /\ calls["lookup_from"] = 1 /\ fn.calls["lookup_from"] = 1
    /\ result.outcome = "rejected" /\ result.items = <<"sender (city: Atlantis)">>
    /\ fn.shipment_data # None
    /\ Val(fn.shipment_data).shipment.ship_from.state = "Goa"

\* C23: every create_shipment invocation whose lookups eventually return or
\* fail reaches a terminal outcome, and exactly one: an assembled record or a
\* rejection, never both.  The stages executed are always an initial part of
\* the fixed stage order, so each runs at most once with no retry and no
\* return to an earlier stage; and a rejection ends the invocation at once: it
\* comes from the last stage executed and no step follows it.
ThmC23_TerminatesOnce ==
    /\ <>(Assembled \/ result.outcome = "rejected")
    /\ [](~(Assembled /\ result.outcome = "rejected"))
    /\ [](IsPrefix(trace, AllStages))
    /\ [](result.outcome = "rejected" =>
             /\ pc = "done"
             /\ \E i \in 1..Len(RejectingStages) : trace[Len(trace)] = RejectingStages[i])
    /\ [][result.outcome # "rejected" /\ pc # "done"]_vars

\* Both lookups were awaited and answered, and the invocation went on through
\* every stage to hand its record over.
WitC23_RanToCompletion ==
    /\ pc = "done"
    /\ calls["lookup_from"] = 1 /\ calls["lookup_to"] = 1
    /\ trace = AllStages
    /\ Assembled

\* C24: in every assembled record the return-to block equals the ship_from
\* block field for field, and both carry the sender's values: the name, company,
\* streets, pincode and email as passed, the city and state as resolved, the
\* phone as normalized, country IN, the classified type, and the tax id exactly
\* when a GSTIN was supplied.
ThmC24_ReturnMirrorsOrigin ==
    Assembled =>
        LET f == Record.shipment.ship_from
            t == Record.shipment.return_to
        IN  /\ DOMAIN t = DOMAIN f
            /\ \A k \in DOMAIN f : t[k] = f[k]
            /\ t.contact_name = req.ship_from_name /\ t.company_name = req.ship_from_company
            /\ t.street1 = req.ship_from_street1 /\ t.street2 = req.ship_from_street2
            /\ t.city = loc.ship_from_city /\ t.state = loc.ship_from_state
            /\ t.postal_code = req.ship_from_pincode /\ t.phone = loc.ship_from_phone
            /\ t.email = req.ship_from_email /\ t.country = "IN"
            /\ t.type = loc.ship_from_type
            /\ t.tax_id = (IF req.ship_from_gstin # "" THEN Some(req.ship_from_gstin) ELSE None)

\* A record whose sender gave a GSTIN and no state: the lookup's state and the
\* tax id are in the return-to block.
WitC24_ResolvedStateAndTaxId ==
    /\ Assembled
    /\ req.ship_from_state = "" /\ req.ship_from_gstin = "27AAACA1234A1Z5"
    /\ Record.shipment.return_to.state = "Goa"
    /\ Record.shipment.return_to.tax_id = Some("27AAACA1234A1Z5")

\* C25: the address type of a party with neither company nor street is
\* residential; otherwise it is business when a business keyword occurs in the
\* lowercased company or street, whether or not a residential keyword occurs
\* too; else residential when a residential keyword occurs; else business when
\* a company was given and residential when not.  It is never anything but
\* business or residential.
ThmC25_AddressClassification ==
    Returned("address_type") =>
        LET company == fn.args[1]
            street == fn.args[2]
            Has(K) == \E k \in K : Contains(lower(company), k) \/ Contains(lower(street), k)
        IN  /\ fn.out[1] \in {"business", "residential"}
            /\ fn.out[1] =
                  IF company = "" /\ street = "" THEN "residential"
                  ELSE IF Has(BUSINESS_KEYWORDS) THEN "business"
                  ELSE IF Has(RESIDENTIAL_KEYWORDS) THEN "residential"
                  ELSE IF company # "" THEN "business"
                  ELSE "residential"

\* A company with a business keyword at an address with residential ones is a
\* business.
WitC25_BusinessOverResidential ==
    /\ Returned("address_type")
    /\ fn.args = <<"Villa Technologies", "Flat 4, Rose Lane">>
    /\ fn.out = <<"business">>

\* C26: an assembled record has a GST invoice exactly when an invoice number
\* and an invoice date were both given: then one invoice, with that number, the
\* date in YYYY-MM-DD form, and the value unit price times quantity; otherwise
\* the GST invoice list is empty.  (Fails on the code: the date of an invoice
\* dated '31-01-0999' is carried as '999-01-31'.)
CexC26_GstInvoice ==
    Assembled =>
        LET g == Record.gst_invoices
            Ymd(s) == /\ Len(s) = 10
                      /\ Ch(s, 5) = "-" /\ Ch(s, 8) = "-"
                      /\ \A i \in {1, 2, 3, 4, 6, 7, 9, 10} : IsDigit(Ch(s, i))
        IN  IF req.invoice_number # "" /\ req.invoice_date # ""
            THEN /\ Len(g) = 1
                 /\ g[1].invoice_number = req.invoice_number
                 /\ g[1].invoice_date = loc.invoice_date
                 /\ Ymd(g[1].invoice_date)
                 /\ g[1].invoice_value = req.item_price * req.item_quantity
            ELSE g = <<>>

\* C27: lookup_pincode is invoked for a party only when the caller left that
\* party's city or state empty, and at most once per party, so at most twice in
\* an invocation; and a city or state the caller did supply is never replaced:
\* it is the value of the local at every stage and of the assembled record,
\* whatever the lookup answers.
ThmC27_LookupOnlyFillsGaps ==
    /\ calls["lookup_from"] <= 1 /\ calls["lookup_to"] <= 1
    /\ calls["lookup_from"] + calls["lookup_to"] <= 2
    /\ calls["lookup_from"] = 1 => (req.ship_from_city = "" \/ req.ship_from_state = "")
    /\ calls["lookup_to"] = 1 => (req.ship_to_city = "" \/ req.ship_to_state = "")
    /\ \A f \in {"ship_from_city", "ship_from_state", "ship_to_city", "ship_to_state"} :
          req[f] # "" => loc[f] = req[f]
    /\ Assembled =>
          /\ req.ship_from_city # "" => Record.shipment.ship_from.city = req.ship_from_city
          /\ req.ship_from_state # "" => Record.shipment.ship_from.state = req.ship_from_state
          /\ req.ship_to_city # "" => Record.shipment.ship_to.city = req.ship_to_city
          /\ req.ship_to_state # "" => Record.shipment.ship_to.state = req.ship_to_state

\* The sender gave the city Mumbai and no state; the lookup answered Pune, Goa:
\* the record keeps Mumbai and takes the state Goa.
WitC27_SuppliedCityKept ==
    /\ Assembled
    /\ calls["lookup_from"] = 1 /\ calls["lookup_to"] = 0
    /\ req.ship_from_city = "Mumbai" /\ req.ship_from_state = ""
    /\ net.from = Info("Pune", "Goa")
    /\ Record.shipment.ship_from.city = "Mumbai"
    /\ Record.shipment.ship_from.state = "Goa"

====
